---- MODULE Spec2Model ----
(***************************************************************************)
(* rg-cleanup: the eligibility decision (shouldDeleteResourceGroup), the   *)
(* resource-group sweep (runResourceGroupCleanup), the role-assignment     *)
(* reconciliation (runRoleAssignmentCleanup), the validation of the        *)
(* options (options.validate) and main of main.go.                         *)
(*                                                                         *)
(* Strings that the code inspects character by character (resource-group   *)
(* names, regular expressions) are sequences of one-character strings.     *)
(* Durations and instants are integers counted in ticks; Hour ticks make   *)
(* one hour.                                                               *)
(***************************************************************************)
EXTENDS Integers, Sequences, FiniteSets, TLC

VARIABLES
    o,          \* the options of the run: dryRun, ttl, regex, subscriptionID
    pc,         \* where the running function stands
    now,        \* the wall clock that time.Since reads
    result,     \* what the function returned: "" while it runs, "nil", "error"
    more,       \* what pager.More() answers
    fetched,    \* number of pages the pager has handed out
    listed,     \* names of the resource groups the listing has handed out
    page,       \* the part of nextResult.Value the range loop has yet to visit
    rgTrace,    \* calls and log lines of runResourceGroupCleanup, in order
    assigned,   \* the role assignments the listing has handed out
    principalToAssignmentIDs, \* the candidate map of runRoleAssignmentCleanup
    ranged,     \* keys of the map the range loop of phase 3 has visited
    pending,    \* assignment IDs the inner loop of phase 3 has yet to visit
    raTrace,    \* calls and log lines of runRoleAssignmentCleanup, in order
    rg,         \* the resource group of the evaluation under study
    clock,      \* what the clock showed at its three evaluations of time.Since
    verdict,    \* what shouldDeleteResourceGroup returned for it
    earlier,    \* what the call before the last returned for it
    completed,  \* the deletions Azure has finished, each with its outcome
    twin        \* the dry-run sweep of the same listing, read by the same clock

vars == <<o, pc, now, result, more, fetched, listed, page, rgTrace, assigned,
          principalToAssignmentIDs, ranged, pending, raTrace, rg, clock, verdict,
          earlier, completed, twin>>

rgVars == <<more, fetched, listed, page, rgTrace>>
raVars == <<assigned, principalToAssignmentIDs, ranged, pending, raTrace>>
evalVars == <<rg, clock, verdict, earlier>>
sideVars == <<completed, twin>>

----------------------------------------------------------------------------
(* Bounds of the model *)

\* ticks per hour: the resolution of the model's clock
Hour == 2
\* largest number of pages a listing has
MaxPages == 2
\* largest number of entries of one page
MaxPageLen == 2
\* how far the clock may advance between two readings of time.Since
MaxDrift == 1
\* how far the clock may advance during one sweep
MaxElapsed == 1
\* the instant at which a run starts
Now0 == 10 * 24 * Hour

----------------------------------------------------------------------------
(* Constants of main.go *)

HoursPerDay == 24
Day == HoursPerDay * Hour
defaultTTL == 3 * HoursPerDay * Hour
defaultRegex == <<>>
creationTimestampTag == "creationTimestamp"
doNotDeleteTag == "DO-NOT-DELETE"

\* A layout is the date-time part "2006-01-02T15:04:05" followed by an optional
\* fractional-second element and a zone element; the zone element is either
\* the reference zone "Z07:00" or literal text.
RFC3339 == [frac |-> "", zone |-> "Z07:00"]
RFC3339Nano == [frac |-> ".999999999", zone |-> "Z07:00"]
rfc3339Layouts ==
    << RFC3339,
       RFC3339Nano,
       [frac |-> "", zone |-> "+0000"],
       [frac |-> "", zone |-> "-0000"],
       [frac |-> "", zone |-> "-00:00"],
       [frac |-> "", zone |-> "+00:00"] >>

----------------------------------------------------------------------------
(* regexp.Compile: a recursive-descent parser of the pattern syntax        *)
(*   alt ::= cat ('|' alt)?     cat ::= rep*     rep ::= atom ('*'|'+'|'?')? *)
(*   atom ::= '(' alt ')' | '.' | '^' | '$' | literal                      *)
(* (the greedy operators; the non-greedy ones are not part of the model).  *)
(* A parse result is [ok, ast, rest].                                      *)

RepOps == {"*", "+", "?"}

ParseFail == [ok |-> FALSE, ast |-> [t |-> "empty"], rest |-> <<>>]

Parsed(ast, rest) == [ok |-> TRUE, ast |-> ast, rest |-> rest]

\* the closing parenthesis after the group r
CloseGroup(r) ==
    IF r.ok /\ r.rest # <<>> /\ Head(r.rest) = ")"
    THEN Parsed(r.ast, Tail(r.rest))
    ELSE ParseFail                      \* missing closing )

\* the repetition operator after the atom a, if there is one
Repeat(a) ==
    IF ~a.ok THEN ParseFail
    ELSE IF a.rest # <<>> /\ Head(a.rest) \in RepOps
         THEN IF Tail(a.rest) # <<>> /\ Head(Tail(a.rest)) \in {"*", "+"}
              THEN ParseFail            \* invalid nested repetition operator
              ELSE Parsed([t |-> Head(a.rest), r |-> a.ast], Tail(a.rest))
         ELSE a

Concat(a, c) ==
    IF ~c.ok THEN ParseFail
    ELSE Parsed([t |-> "cat", l |-> a.ast, r |-> c.ast], c.rest)

Alternate(a, b) ==
    IF ~b.ok THEN ParseFail
    ELSE Parsed([t |-> "alt", l |-> a.ast, r |-> b.ast], b.rest)

RECURSIVE ParseAlt(_), ParseAltRest(_), ParseCat(_), ParseCatRest(_), ParseAtom(_)

ParseAtom(toks) ==
    IF toks = <<>> THEN ParseFail
    ELSE CASE Head(toks) = "(" -> CloseGroup(ParseAlt(Tail(toks)))
           [] Head(toks) \in RepOps \cup {")", "|"} -> ParseFail  \* missing argument
           [] Head(toks) = "." -> Parsed([t |-> "any"], Tail(toks))
           [] Head(toks) = "^" -> Parsed([t |-> "bot"], Tail(toks))
           [] Head(toks) = "$" -> Parsed([t |-> "eot"], Tail(toks))
           [] OTHER -> Parsed([t |-> "lit", c |-> Head(toks)], Tail(toks))

ParseCatRest(a) ==
    IF ~a.ok THEN ParseFail ELSE Concat(a, ParseCat(a.rest))

ParseCat(toks) ==
    IF toks = <<>> \/ Head(toks) \in {"|", ")"}
    THEN Parsed([t |-> "empty"], toks)
    ELSE ParseCatRest(Repeat(ParseAtom(toks)))

ParseAltRest(a) ==
    IF ~a.ok THEN ParseFail
    ELSE IF a.rest # <<>> /\ Head(a.rest) = "|"
         THEN Alternate(a, ParseAlt(Tail(a.rest)))
         ELSE a

ParseAlt(toks) == ParseAltRest(ParseCat(toks))

\* the whole pattern must be consumed: a ) without its ( is left over
ParsePattern(r) ==
    IF r.ok /\ r.rest = <<>>
    THEN [err |-> FALSE, rgx |-> r.ast]
    ELSE [err |-> TRUE, rgx |-> [t |-> "empty"]]

\* regexp.Compile(regex): [err, rgx]
Compile(regex) == ParsePattern(ParseAlt(regex))

----------------------------------------------------------------------------
(* Regexp.FindString: the leftmost match, and among the matches that start *)
(* there the one a backtracking search finds first.                        *)

RECURSIVE MatchEnds(_, _, _), MatchEndsFrom(_, _, _), StarEndsFrom(_, _, _, _)

\* the end positions of the matches of re that start after the first i
\* characters of s, in the order a backtracking search tries them
MatchEnds(re, s, i) ==
    CASE re.t = "empty" -> <<i>>
      [] re.t = "lit" -> IF i < Len(s) /\ s[i + 1] = re.c THEN <<i + 1>> ELSE <<>>
      [] re.t = "any" -> IF i < Len(s) THEN <<i + 1>> ELSE <<>>
      [] re.t = "bot" -> IF i = 0 THEN <<i>> ELSE <<>>
      [] re.t = "eot" -> IF i = Len(s) THEN <<i>> ELSE <<>>
      [] re.t = "cat" -> MatchEndsFrom(re.r, s, MatchEnds(re.l, s, i))
      [] re.t = "alt" -> MatchEnds(re.l, s, i) \o MatchEnds(re.r, s, i)
      [] re.t = "*" -> StarEndsFrom(re, s, i, MatchEnds(re.r, s, i)) \o <<i>>
      [] re.t = "+" -> MatchEndsFrom([t |-> "*", r |-> re.r], s, MatchEnds(re.r, s, i))
      [] re.t = "?" -> MatchEnds(re.r, s, i) \o <<i>>

\* the matches of re continued from each of the positions es, in order
MatchEndsFrom(re, s, es) ==
    IF es = <<>> THEN <<>>
    ELSE MatchEnds(re, s, Head(es)) \o MatchEndsFrom(re, s, Tail(es))

\* one more iteration of the star from each position of es that made progress
StarEndsFrom(star, s, i, es) ==
    IF es = <<>> THEN <<>>
    ELSE (IF Head(es) > i THEN MatchEnds(star, s, Head(es)) ELSE <<>>)
         \o StarEndsFrom(star, s, i, Tail(es))

RECURSIVE FindFrom(_, _, _)
FindFrom(rgx, s, i) ==
    IF i > Len(s) THEN <<>>
    ELSE LET es == MatchEnds(rgx, s, i) IN
         IF es # <<>> THEN SubSeq(s, i + 1, Head(es)) ELSE FindFrom(rgx, s, i + 1)

\* rgx.FindString(s): the text of the leftmost match, "" when there is none
FindString(rgx, s) == FindFrom(rgx, s, 0)

\* Faulty variant: a match anywhere in the name counts (MatchString in place
\* of the comparison of FindString with the name).
regexMatchesAnywhere(regex, rgName) ==
    IF regex # <<>>
    THEN LET c == Compile(regex) IN
         IF c.err THEN [match |-> FALSE, err |-> TRUE]
         ELSE [match |-> \E i \in 0 .. Len(rgName) : MatchEnds(c.rgx, rgName, i) # <<>>,
               err |-> FALSE]
    ELSE [match |-> FALSE, err |-> FALSE]

\* Faulty variant: the error of regexp.Compile is dropped and the name passes.
regexMatchesDespiteCompileError(regex, rgName) ==
    IF regex # <<>>
    THEN LET c == Compile(regex) IN
         IF c.err THEN [match |-> TRUE, err |-> FALSE]
         ELSE LET match == FindString(c.rgx, rgName) IN
              IF match # rgName
              THEN [match |-> FALSE, err |-> FALSE]
              ELSE [match |-> TRUE, err |-> FALSE]
    ELSE [match |-> FALSE, err |-> FALSE]

\* regexMatchesResourceGroupName(regex, rgName): [match, err]
regexMatchesResourceGroupName(regex, rgName) ==
    IF regex # <<>>
    THEN LET c == Compile(regex) IN
         IF c.err THEN [match |-> FALSE, err |-> TRUE]
         ELSE LET match == FindString(c.rgx, rgName) IN
              IF match # rgName
              THEN [match |-> FALSE, err |-> FALSE]
              ELSE [match |-> TRUE, err |-> FALSE]
    ELSE [match |-> FALSE, err |-> FALSE]

----------------------------------------------------------------------------
(* Tag values.  A tag value is a *string.  What time.Parse looks at is the  *)
(* lexical shape of the string, so a value is kept as its shape:           *)
(*   shape "datetime": "<date>T<time>[.fraction]<zone>", where wall is the *)
(*       date and time read as ticks, frac tells whether a fraction is     *)
(*       written, and the zone is written Z (sign "Z"), sign+hh:00 (colon) *)
(*       or sign+hh00 (no colon), or is left out (sign "");                *)
(*   shape "digits": a string of decimal digits such as "1608166242";      *)
(*   shape "text": any other text, such as "invalid creation timestamp".   *)

NilString ==
    [null |-> TRUE, shape |-> "", wall |-> 0, frac |-> FALSE,
     sign |-> "", hh |-> 0, colon |-> FALSE]

StringPtr(shape) ==
    [null |-> FALSE, shape |-> shape, wall |-> 0, frac |-> FALSE,
     sign |-> "", hh |-> 0, colon |-> FALSE]

Timestamp(wall, frac, sign, hh, colon) ==
    [null |-> FALSE, shape |-> "datetime", wall |-> wall, frac |-> frac,
     sign |-> sign, hh |-> hh, colon |-> colon]

\* the zone as it is written in the value
ZoneText(v) ==
    IF v.sign \in {"+", "-"}
    THEN v.sign \o "0" \o ToString(v.hh) \o (IF v.colon THEN ":" ELSE "") \o "00"
    ELSE v.sign

\* time.Parse(layout, value): [err, t].  The date-time part matches a value
\* of shape "datetime"; a fraction in the value is accepted after the seconds
\* whether or not the layout has a fractional element; the element "Z07:00"
\* accepts Z or a signed hh:mm offset, which is subtracted from the wall time;
\* any other zone text of the layout is literal and leaves the time in UTC.
ParseTime(layout, v) ==
    LET numeric == layout.zone = "Z07:00"
        zoneOK == IF numeric
                  THEN v.sign = "Z" \/ (v.sign \in {"+", "-"} /\ v.colon)
                  ELSE ZoneText(v) = layout.zone
        offset == IF numeric /\ v.sign = "+" THEN v.hh * Hour
                  ELSE IF numeric /\ v.sign = "-" THEN 0 - v.hh * Hour
                  ELSE 0
    IN  IF v.shape = "datetime" /\ zoneOK
        THEN [err |-> FALSE, t |-> v.wall - offset]
        ELSE [err |-> TRUE, t |-> 0]

\* Faulty variant: t and err are declared anew inside the loop (t, err :=), so
\* the outer ones keep their zero values.
ParseLayoutsShadowed(value, k, last) == [err |-> FALSE, t |-> 0]

\* Faulty variant: the loop has no break, so t and err are those of the last
\* layout.
ParseLayoutsToTheEnd(value, k, last) ==
    IF k > Len(rfc3339Layouts) THEN last
    ELSE ParseTime(rfc3339Layouts[Len(rfc3339Layouts)], value)

\* lines 277-284: the loop over rfc3339Layouts from layout number k on, with
\* the (t, err) the earlier iterations left behind
RECURSIVE ParseLayouts(_, _, _)
ParseLayouts(value, k, last) ==
    IF k > Len(rfc3339Layouts) THEN last
    ELSE LET r == ParseTime(rfc3339Layouts[k], value) IN
         IF ~r.err THEN r ELSE ParseLayouts(value, k + 1, r)

\* int(x / y) for durations: truncation toward zero
TruncDiv(x, y) == IF x >= 0 THEN x \div y ELSE 0 - ((0 - x) \div y)

\* keys of the tag maps of the model, in the order fmt prints map keys
TagKeys == <<doNotDeleteTag, creationTimestampTag, "owner">>

\* fmt's %v of a map[string]*string: the keys in sorted order, each with the
\* address its value points to (one token stands for every address)
RECURSIVE FormatEntries(_, _)
FormatEntries(tags, k) ==
    IF k > Len(TagKeys) THEN ""
    ELSE LET key == TagKeys[k]
             tail == FormatEntries(tags, k + 1)
         IN  IF key \in DOMAIN tags
             THEN key \o ":" \o (IF tags[key].null THEN "<nil>" ELSE "0xADDR")
                      \o (IF tail = "" THEN "" ELSE " " \o tail)
             ELSE tail

FormatTags(tags) == "map[" \o FormatEntries(tags, 1) \o "]"

Verdict(age, ok) == [age |-> age, ok |-> ok, panic |-> FALSE]

\* a nil pointer dereference: the call does not return
Panic == [age |-> "", ok |-> FALSE, panic |-> TRUE]

\* Faulty variant: the boundary is excluded.
AgeExceeded(age, ttl) == age > ttl

\* the age comparison of line 291
AgeReached(age, ttl) == age >= ttl

\* Faulty variant: the tag is looked up under a key of another spelling.
OptedOutOtherKey(g) == "do-not-delete" \in DOMAIN g.Tags

\* Faulty variant: the tag opts out only when it has a value.
OptedOutByValue(g) ==
    doNotDeleteTag \in DOMAIN g.Tags /\ ~g.Tags[doNotDeleteTag].null

\* line 255: the opt-out tag is among the keys, whatever its value
OptedOut(g) == doNotDeleteTag \in DOMAIN g.Tags

\* Faulty variant: a group without the tag is kept.
MissingTimestampKept(g) == Verdict("", FALSE)

\* lines 273-275: the verdict for a group without the creationTimestamp tag
MissingTimestamp(g) ==
    Verdict("probably a long time because it does not have a '"
                \o creationTimestampTag \o "' tag. Found tags: "
                \o FormatTags(g.Tags), TRUE)

\* shouldDeleteResourceGroup(rg, ttl, regex).  since holds what the clock
\* shows at the three evaluations of time.Since(t) of line 291, in order.
shouldDeleteResourceGroup(g, ttl, regex, since) ==
    IF OptedOut(g) THEN Verdict("", FALSE)
    ELSE LET m == regexMatchesResourceGroupName(regex, g.Name) IN
    IF regex # <<>> /\ m.err THEN Verdict("", FALSE)
    ELSE IF regex # <<>> /\ ~m.match THEN Verdict("", FALSE)
    ELSE IF creationTimestampTag \notin DOMAIN g.Tags THEN MissingTimestamp(g)
    ELSE LET creationTimestamp == g.Tags[creationTimestampTag] IN
    IF creationTimestamp.null THEN Panic
    ELSE LET r == ParseLayouts(creationTimestamp, 1, [err |-> FALSE, t |-> 0]) IN
    IF r.err THEN Verdict("", FALSE)
    ELSE Verdict(ToString(TruncDiv(since[1] - r.t, Hour * HoursPerDay))
                    \o " days ("
                    \o ToString(TruncDiv(since[2] - r.t, Hour))
                    \o " hours)",
                 AgeReached(since[3] - r.t, ttl))

----------------------------------------------------------------------------
(* The resource groups and options the runs are tried on *)

\* a tag map: the keys of ks, each with the value val gives it
Tags(ks, val) == [k \in ks |-> val[k]]

NoTags == [k \in {} |-> NilString]

ResourceGroup(name, tags) == [Name |-> name, Tags |-> tags]

\* creationTimestamp values written in UTC ("...Z") at a given age at Now0
Created(age) == Timestamp(Now0 - age, FALSE, "Z", 0, FALSE)

\* the tag maps of the listed resource groups: no tags; four days old;
\* one day old; four days old and marked DO-NOT-DELETE; a creationTimestamp
\* whose value is nil (Tags is a map[string]*string).
SweepTags ==
    { NoTags,
      Tags({creationTimestampTag}, [creationTimestamp |-> NilString]),
      Tags({creationTimestampTag}, [creationTimestamp |-> Created(defaultTTL + Day)]),
      Tags({creationTimestampTag}, [creationTimestamp |-> Created(Day)]),
      Tags({creationTimestampTag, doNotDeleteTag},
           (creationTimestampTag :> Created(defaultTTL + Day))
              @@ (doNotDeleteTag :> StringPtr("text"))) }

\* resource-group names are unique within a subscription
SweepNames == { <<"a">>, <<"a", "b">>, <<"b">> }

\* no pattern, a pattern that is all of "a" and a part of "ab", and a pattern
\* that does not compile
SweepRegexes == { defaultRegex, <<"a">>, <<"(">> }

SweepGroups == { ResourceGroup(n, t) : n \in SweepNames, t \in SweepTags }

\* o is the options struct of main (and not the arguments of one function)
InMain == "roleAssignments" \in DOMAIN o

\* the resource groups of the subscription in a run of main: one four days
\* old, and one whose creationTimestamp is an hour ahead of the clock of
\* the run
MainGroups ==
    { ResourceGroup(<<"a">>, Tags({creationTimestampTag},
                                  [creationTimestamp |-> Created(defaultTTL + Day)])),
      ResourceGroup(<<"b">>, Tags({creationTimestampTag},
                                  [creationTimestamp |-> Created(0 - Hour)])) }

\* the resource groups the listing can hand out
Listable == IF InMain THEN MainGroups ELSE SweepGroups

\* the pages the listing can hand out next: at most n groups whose names are
\* not in used, no name twice
RECURSIVE PagesOf(_, _)
PagesOf(used, n) ==
    {<<>>} \cup
    IF n = 0 THEN {}
    ELSE UNION { { <<g>> \o p : p \in PagesOf(used \cup {g.Name}, n - 1) } :
                 g \in { h \in Listable : h.Name \notin used } }

NoGroup == ResourceGroup(<<>>, NoTags)

\* an entry of rgTrace: a call with its outcome, or a log line
RGEvent(op, g, age, ok) == [op |-> op, rg |-> g, age |-> age, ok |-> ok]

----------------------------------------------------------------------------
(* runResourceGroupCleanup, lines 224-252 *)

\* Faulty variant: the error is logged and the loop goes on.
RGNextPageFailsAndGoesOn ==
    /\ pc = "rg" /\ page = <<>> /\ more
    /\ fetched < MaxPages
    /\ fetched' = fetched + 1
    /\ rgTrace' = Append(rgTrace, RGEvent("NextPage", NoGroup, "", FALSE))
    /\ UNCHANGED <<o, pc, now, result, more, listed, page, raVars, evalVars,
                   sideVars>>

\* Faulty variant: err is looked at after the loop over nextResult.Value, so
\* that a group handed out with the error is acted on before the return.
RGNextPageFailsAfterValues ==
    /\ pc = "rg" /\ page = <<>> /\ more
    /\ \E g \in { h \in Listable : h.Name \notin listed } :
          LET v == shouldDeleteResourceGroup(g, o.ttl, o.regex, <<now, now, now>>)
          IN  /\ v.ok /\ ~o.dryRun
              /\ rgTrace' = rgTrace
                              \o <<RGEvent("NextPage", NoGroup, "", FALSE),
                                   RGEvent("shouldDeleteResourceGroup", g, v.age, v.ok),
                                   RGEvent("log: Beginning to delete", g, v.age, TRUE),
                                   RGEvent("BeginDelete", g, "", TRUE)>>
    /\ result' = "error"
    /\ pc' = "ret"
    /\ UNCHANGED <<o, now, more, fetched, listed, page, raVars, evalVars,
                   sideVars>>

\* lines 228-232: pager.NextPage fails
RGNextPageFails ==
    /\ pc = "rg" /\ page = <<>> /\ more
    /\ rgTrace' = Append(rgTrace, RGEvent("NextPage", NoGroup, "", FALSE))
    /\ result' = "error"
    /\ pc' = "ret"
    /\ UNCHANGED <<o, now, more, fetched, listed, page, raVars, evalVars,
                   sideVars>>

\* lines 228-233: pager.NextPage hands out the next page
RGNextPage ==
    /\ pc = "rg" /\ page = <<>> /\ more
    /\ \E pg \in PagesOf(listed, MaxPageLen), m \in BOOLEAN :
          /\ fetched + 1 >= MaxPages => ~m
          /\ page' = pg
          /\ more' = m
          /\ listed' = listed \cup { pg[i].Name : i \in DOMAIN pg }
    /\ fetched' = fetched + 1
    /\ rgTrace' = Append(rgTrace, RGEvent("NextPage", NoGroup, "", TRUE))
    /\ UNCHANGED <<o, pc, now, result, raVars, evalVars,
                   sideVars>>

\* Faulty variant: dryRun is not looked at.
RGActOnWithoutDryRun(g, v, dryRun, deleteErr) ==
    <<RGEvent("shouldDeleteResourceGroup", g, v.age, v.ok)>> \o
    IF ~v.ok THEN <<>>
    ELSE <<RGEvent("log: Beginning to delete", g, v.age, TRUE),
           RGEvent("BeginDelete", g, "", ~deleteErr)>> \o
         IF deleteErr THEN <<RGEvent("log: Error when deleting", g, "", TRUE)>>
         ELSE <<>>

\* Faulty variant: under dryRun the loop goes on (continue) before the line
\* that logs the eligible group.
RGActOnSilentDryRun(g, v, dryRun, deleteErr) ==
    <<RGEvent("shouldDeleteResourceGroup", g, v.age, v.ok)>> \o
    IF ~v.ok \/ dryRun THEN <<>>
    ELSE <<RGEvent("log: Beginning to delete", g, v.age, TRUE),
           RGEvent("BeginDelete", g, "", ~deleteErr)>> \o
         IF deleteErr THEN <<RGEvent("log: Error when deleting", g, "", TRUE)>>
         ELSE <<>>

\* what lines 235-247 add to the trace for a group whose verdict is v, when
\* BeginDelete fails (deleteErr) or not
RGActOn(g, v, dryRun, deleteErr) ==
    <<RGEvent("shouldDeleteResourceGroup", g, v.age, v.ok)>> \o
    IF ~v.ok THEN <<>>
    ELSE IF dryRun
    THEN <<RGEvent("log: Dry-run: skip deletion", g, v.age, TRUE)>>
    ELSE <<RGEvent("log: Beginning to delete", g, v.age, TRUE),
           RGEvent("BeginDelete", g, "", ~deleteErr)>> \o
         IF deleteErr THEN <<RGEvent("log: Error when deleting", g, "", TRUE)>>
         ELSE <<>>

\* Faulty variant: an error of BeginDelete leaves the range loop (break).
RestOfPageUnlessError(pg, deleteErr) == IF deleteErr THEN <<>> ELSE Tail(pg)

\* Faulty variant: after an error of BeginDelete the entry is tried again.
RestOfPageAfterRetry(pg, deleteErr) == IF deleteErr THEN pg ELSE Tail(pg)

\* lines 233, 244-248: the range loop goes on to the next entry, whether or
\* not BeginDelete returned an error
RestOfPage(pg, deleteErr) == Tail(pg)

\* lines 233-248: one iteration of the loop over nextResult.Value
RGVisit ==
    /\ pc = "rg" /\ page # <<>>
    /\ \E d1, d2 \in 0 .. MaxDrift, deleteErr \in BOOLEAN :
          LET g == Head(page)
              since == <<now, now + d1, now + d1 + d2>>
              v == shouldDeleteResourceGroup(g, o.ttl, o.regex, since)
          IN  /\ since[3] <= Now0 + MaxElapsed
              /\ deleteErr => (v.ok /\ ~o.dryRun)
              /\ now' = since[3]
              /\ page' = RestOfPage(page, deleteErr)
              /\ IF v.panic
                 THEN /\ pc' = "panic"
                      /\ rgTrace' = rgTrace
                 ELSE /\ pc' = pc
                      /\ rgTrace' = rgTrace \o RGActOn(g, v, o.dryRun, deleteErr)
    /\ UNCHANGED <<o, result, more, fetched, listed, raVars, evalVars,
                   sideVars>>

\* Faulty variant: the pollers of BeginDelete are kept and waited for
\* (PollUntilDone) before the return, and a deletion that failed is returned
\* as the error.
RGReturnAfterPollUntilDone ==
    /\ pc = "rg" /\ page = <<>> /\ ~more
    /\ \A i \in DOMAIN rgTrace :
          (rgTrace[i].op = "BeginDelete" /\ rgTrace[i].ok)
              => rgTrace[i].rg.Name \in DOMAIN completed
    /\ result' = IF \E n \in DOMAIN completed : completed[n] = "Failed"
                 THEN "error" ELSE "nil"
    /\ pc' = "ret"
    /\ UNCHANGED <<o, now, rgVars, raVars, evalVars,
                   sideVars>>

\* lines 228, 251: pager.More() is false
RGReturn ==
    /\ pc = "rg" /\ page = <<>> /\ ~more
    /\ result' = "nil"
    /\ pc' = "ret"
    /\ UNCHANGED <<o, now, rgVars, raVars, evalVars,
                   sideVars>>

----------------------------------------------------------------------------
(* The role assignments the reconciliation is tried on *)

\* a *string (or a *PrincipalType)
Ptr(v) == [null |-> FALSE, v |-> v]
NilPtr == [null |-> TRUE, v |-> ""]

PrincipalTypeServicePrincipal == "ServicePrincipal"

subscriptionID == "sub"

RoleAssignment(id, principalID, principalType, scope) ==
    [ID |-> id,
     Properties |-> [PrincipalID |-> principalID,
                     PrincipalType |-> principalType,
                     Scope |-> scope]]

SubscriptionScope == Ptr("/subscriptions/" \o subscriptionID)

\* the role assignments of the subscription: three of service principals at
\* the subscription, one of a user, one without a principal type, one scoped
\* to a management group, one to a resource group, one without a scope, one
\* without a principal ID and one without an ID
Assignments ==
    { RoleAssignment(Ptr("A1"), Ptr("P1"), Ptr(PrincipalTypeServicePrincipal), SubscriptionScope),
      RoleAssignment(Ptr("A2"), Ptr("P2"), Ptr(PrincipalTypeServicePrincipal), SubscriptionScope),
      RoleAssignment(Ptr("A3"), Ptr("P2"), Ptr(PrincipalTypeServicePrincipal), SubscriptionScope),
      RoleAssignment(Ptr("A4"), Ptr("P1"), Ptr("User"), SubscriptionScope),
      RoleAssignment(Ptr("A5"), Ptr("P2"), NilPtr, SubscriptionScope),
      RoleAssignment(Ptr("A6"), Ptr("P1"), Ptr(PrincipalTypeServicePrincipal),
                     Ptr("/providers/Microsoft.Management/managementGroups/mg")),
      RoleAssignment(Ptr("A7"), Ptr("P2"), Ptr(PrincipalTypeServicePrincipal),
                     Ptr("/subscriptions/" \o subscriptionID \o "/resourceGroups/rg")),
      RoleAssignment(Ptr("A8"), Ptr("P1"), Ptr(PrincipalTypeServicePrincipal), NilPtr),
      RoleAssignment(Ptr("A9"), NilPtr, Ptr(PrincipalTypeServicePrincipal), SubscriptionScope),
      RoleAssignment(NilPtr, Ptr("P1"), Ptr(PrincipalTypeServicePrincipal), SubscriptionScope) }

\* the role assignments of the subscription in a run of main: two of service
\* principals at the subscription and one of a user
MainAssignments ==
    { a \in Assignments : a.ID \in {Ptr("A1"), Ptr("A2"), Ptr("A4")} }

\* the role assignments the listing can hand out
Assignable == IF InMain THEN MainAssignments ELSE Assignments

\* the pages the listing can hand out next: at most n assignments that are
\* not in used, none twice
RECURSIVE AssignmentPagesOf(_, _)
AssignmentPagesOf(used, n) ==
    {<<>>} \cup
    IF n = 0 THEN {}
    ELSE UNION { { <<a>> \o p : p \in AssignmentPagesOf(used \cup {a}, n - 1) } :
                 a \in Assignable \ used }

\* an entry of raTrace: a call with its outcome, or a log line
RAEvent(op, id, ids, ok) == [op |-> op, id |-> id, ids |-> ids, ok |-> ok]

NoCandidates == [p \in {} |-> <<>>]

----------------------------------------------------------------------------
(* runRoleAssignmentCleanup, lines 338-410 *)

\* Faulty variant: the scope of the assignment is not compared.
IsCandidateOfAnyScope(assignment, sub) ==
    /\ ~assignment.Properties.PrincipalType.null
    /\ assignment.Properties.PrincipalType.v = PrincipalTypeServicePrincipal
    /\ ~assignment.Properties.PrincipalID.null
    /\ ~assignment.ID.null

\* lines 353-363: whether the loop body keeps the assignment
IsCandidate(assignment, sub) ==
    /\ ~assignment.Properties.PrincipalType.null
    /\ assignment.Properties.PrincipalType.v = PrincipalTypeServicePrincipal
    /\ ~assignment.Properties.Scope.null
    /\ assignment.Properties.Scope.v = "/subscriptions/" \o sub
    /\ ~assignment.Properties.PrincipalID.null
    /\ ~assignment.ID.null

\* line 362: append id to the list of pid
AppendID(m, pid, id) ==
    [p \in DOMAIN m \cup {pid} |->
        IF p = pid
        THEN (IF p \in DOMAIN m THEN m[p] ELSE <<>>) \o <<id>>
        ELSE m[p]]

\* lines 352-364: the loop over assignments.Value
RECURSIVE Collect(_, _, _)
Collect(m, as, sub) ==
    IF as = <<>> THEN m
    ELSE Collect(IF IsCandidate(Head(as), sub)
                 THEN AppendID(m, Head(as).Properties.PrincipalID.v, Head(as).ID.v)
                 ELSE m,
                 Tail(as), sub)

\* lines 347-351: pager.NextPage fails
RANextPageFails ==
    /\ pc = "ra_list" /\ more
    /\ raTrace' = Append(raTrace, RAEvent("NextPage", "", {}, FALSE))
    /\ result' = "error"
    /\ pc' = "ret"
    /\ UNCHANGED <<o, now, rgVars, assigned, principalToAssignmentIDs, ranged,
                   pending, evalVars,
                   sideVars>>

\* lines 347-365: pager.NextPage hands out a page and the loop collects it
RANextPage ==
    /\ pc = "ra_list" /\ more
    /\ \E pg \in AssignmentPagesOf(assigned, MaxPageLen), m \in BOOLEAN :
          /\ fetched + 1 >= MaxPages => ~m
          /\ more' = m
          /\ assigned' = assigned \cup { pg[i] : i \in DOMAIN pg }
          /\ principalToAssignmentIDs' =
                Collect(principalToAssignmentIDs, pg, o.subscriptionID)
    /\ fetched' = fetched + 1
    /\ raTrace' = Append(raTrace, RAEvent("NextPage", "", {}, TRUE))
    /\ UNCHANGED <<o, pc, now, result, listed, page, rgTrace, ranged, pending,
                   evalVars,
                   sideVars>>

\* Faulty variant: the directory is asked although nothing was collected.
RANoAssignmentsAsksAnyway ==
    /\ pc = "ra_list" /\ ~more
    /\ DOMAIN principalToAssignmentIDs = {}
    /\ raTrace' = raTrace \o
            <<RAEvent("GetByIds", "", {}, TRUE),
              RAEvent("GetByIds: response", "", {}, TRUE),
              RAEvent("log: No unattached role assignments found", "", {}, TRUE)>>
    /\ result' = "nil"
    /\ pc' = "ret"
    /\ UNCHANGED <<o, now, rgVars, assigned, principalToAssignmentIDs, ranged,
                   pending, evalVars,
                   sideVars>>

\* lines 366-369: nothing was collected
RANoAssignments ==
    /\ pc = "ra_list" /\ ~more
    /\ DOMAIN principalToAssignmentIDs = {}
    /\ raTrace' = Append(raTrace, RAEvent("log: No role assignments found", "", {}, TRUE))
    /\ result' = "nil"
    /\ pc' = "ret"
    /\ UNCHANGED <<o, now, rgVars, assigned, principalToAssignmentIDs, ranged,
                   pending, evalVars,
                   sideVars>>

\* Faulty variant: the error of the query is dropped and phase 3 runs on the
\* candidates as they are.
RAQueryFailsAndGoesOn ==
    /\ pc = "ra_list" /\ ~more
    /\ DOMAIN principalToAssignmentIDs # {}
    /\ raTrace' = Append(raTrace,
            RAEvent("GetByIds", "", DOMAIN principalToAssignmentIDs, FALSE))
    /\ pc' = "ra_delete"
    /\ UNCHANGED <<o, now, result, rgVars, assigned, principalToAssignmentIDs,
                   ranged, pending, evalVars,
                   sideVars>>

\* lines 371-380: the directory query fails
RAQueryFails ==
    /\ pc = "ra_list" /\ ~more
    /\ DOMAIN principalToAssignmentIDs # {}
    /\ raTrace' = Append(raTrace,
            RAEvent("GetByIds", "", DOMAIN principalToAssignmentIDs, FALSE))
    /\ result' = "error"
    /\ pc' = "ret"
    /\ UNCHANGED <<o, now, rgVars, assigned, principalToAssignmentIDs, ranged,
                   pending, evalVars,
                   sideVars>>

\* Faulty variant: the principals the directory returned stay in the map.
RemoveNothing(m, existing) == m

\* lines 383-387: delete the keys the directory returned
RemoveExisting(m, existing) == [p \in DOMAIN m \ existing |-> m[p]]

\* Faulty variant: the directory is asked inside the loop over the pages, as
\* soon as a page has left a candidate, while pages remain to be listed.
RAQueryWhilePagesRemain ==
    /\ pc = "ra_list" /\ fetched > 0
    /\ DOMAIN principalToAssignmentIDs # {}
    /\ \E existing \in SUBSET DOMAIN principalToAssignmentIDs :
          LET left == RemoveExisting(principalToAssignmentIDs, existing)
              asked == RAEvent("GetByIds", "", DOMAIN principalToAssignmentIDs, TRUE)
              got == RAEvent("GetByIds: response", "", existing, TRUE)
          IN  /\ principalToAssignmentIDs' = left
              /\ IF DOMAIN left = {}
                 THEN /\ raTrace' = raTrace \o <<asked, got,
                            RAEvent("log: No unattached role assignments found", "", {}, TRUE)>>
                      /\ result' = "nil"
                      /\ pc' = "ret"
                 ELSE /\ raTrace' = raTrace \o <<asked, got>>
                      /\ result' = result
                      /\ pc' = "ra_delete"
    /\ UNCHANGED <<o, now, rgVars, assigned, ranged, pending, evalVars,
                   sideVars>>

\* lines 371-392: the directory answers with the principals that exist
RAQuery ==
    /\ pc = "ra_list" /\ ~more
    /\ DOMAIN principalToAssignmentIDs # {}
    /\ \E existing \in SUBSET DOMAIN principalToAssignmentIDs :
          LET left == RemoveExisting(principalToAssignmentIDs, existing)
              asked == RAEvent("GetByIds", "", DOMAIN principalToAssignmentIDs, TRUE)
              got == RAEvent("GetByIds: response", "", existing, TRUE)
          IN  /\ principalToAssignmentIDs' = left
              /\ IF DOMAIN left = {}
                 THEN /\ raTrace' = raTrace \o <<asked, got,
                            RAEvent("log: No unattached role assignments found", "", {}, TRUE)>>
                      /\ result' = "nil"
                      /\ pc' = "ret"
                 ELSE /\ raTrace' = raTrace \o <<asked, got>>
                      /\ result' = result
                      /\ pc' = "ra_delete"
    /\ UNCHANGED <<o, now, rgVars, assigned, ranged, pending, evalVars,
                   sideVars>>

\* line 395: the range over the map reaches another key, in no fixed order
RANextPrincipal ==
    /\ pc = "ra_delete" /\ pending = <<>>
    /\ \E p \in DOMAIN principalToAssignmentIDs \ ranged :
          /\ ranged' = ranged \cup {p}
          /\ pending' = principalToAssignmentIDs[p]
    /\ UNCHANGED <<o, pc, now, result, rgVars, assigned,
                   principalToAssignmentIDs, raTrace, evalVars,
                   sideVars>>

\* lines 396-400: dry run, the assignment is logged
RADryRun ==
    /\ pc = "ra_delete" /\ pending # <<>>
    /\ o.dryRun
    /\ raTrace' = Append(raTrace,
            RAEvent("log: Dry-run: skip deletion", Head(pending), {}, TRUE))
    /\ pending' = Tail(pending)
    /\ UNCHANGED <<o, pc, now, result, rgVars, assigned,
                   principalToAssignmentIDs, ranged, evalVars,
                   sideVars>>

\* lines 401, 405: DeleteByID succeeds
RADeleteByID ==
    /\ pc = "ra_delete" /\ pending # <<>>
    /\ ~o.dryRun
    /\ raTrace' = raTrace \o
            <<RAEvent("DeleteByID", Head(pending), {}, TRUE),
              RAEvent("log: Deleted role assignment", Head(pending), {}, TRUE)>>
    /\ pending' = Tail(pending)
    /\ UNCHANGED <<o, pc, now, result, rgVars, assigned,
                   principalToAssignmentIDs, ranged, evalVars,
                   sideVars>>

\* Faulty variant: the error of DeleteByID is logged and the loop goes on.
RADeleteByIDFailsAndGoesOn ==
    /\ pc = "ra_delete" /\ pending # <<>>
    /\ ~o.dryRun
    /\ raTrace' = Append(raTrace, RAEvent("DeleteByID", Head(pending), {}, FALSE))
    /\ pending' = Tail(pending)
    /\ UNCHANGED <<o, pc, now, result, rgVars, assigned,
                   principalToAssignmentIDs, ranged, evalVars,
                   sideVars>>

\* lines 401-404: DeleteByID fails
RADeleteByIDFails ==
    /\ pc = "ra_delete" /\ pending # <<>>
    /\ ~o.dryRun
    /\ raTrace' = Append(raTrace, RAEvent("DeleteByID", Head(pending), {}, FALSE))
    /\ result' = "error"
    /\ pc' = "ret"
    /\ UNCHANGED <<o, now, rgVars, assigned, principalToAssignmentIDs, ranged,
                   pending, evalVars,
                   sideVars>>

\* line 409: both loops of phase 3 are through
RAReturn ==
    /\ pc = "ra_delete" /\ pending = <<>>
    /\ DOMAIN principalToAssignmentIDs \subseteq ranged
    /\ result' = "nil"
    /\ pc' = "ret"
    /\ UNCHANGED <<o, now, rgVars, raVars, evalVars,
                   sideVars>>

----------------------------------------------------------------------------
(* A call of runResourceGroupCleanup or of runRoleAssignmentCleanup *)

SweepOptions ==
    [dryRun : BOOLEAN, ttl : {defaultTTL}, regex : SweepRegexes,
     subscriptionID : {subscriptionID}]

\* no deletion has finished
NoCompletions == [n \in {} |-> ""]

\* no dry-run sweep runs beside the sweep
NoTwin == [pc |-> "", more |-> FALSE, fetched |-> 0, page |-> <<>>,
           rgTrace |-> <<>>, result |-> ""]

Init ==
    /\ o \in SweepOptions
    /\ pc \in {"rg", "ra_list"}
    /\ pc = "ra_list" => o.regex = defaultRegex
    /\ now = Now0
    /\ result = ""
    /\ more = TRUE
    /\ fetched = 0
    /\ listed = {}
    /\ page = <<>>
    /\ rgTrace = <<>>
    /\ assigned = {}
    /\ principalToAssignmentIDs = NoCandidates
    /\ ranged = {}
    /\ pending = <<>>
    /\ raTrace = <<>>
    /\ rg = NoGroup
    /\ clock = <<Now0, Now0, Now0>>
    /\ verdict = Verdict("", FALSE)
    /\ earlier = Verdict("", FALSE)
    /\ completed = NoCompletions
    /\ twin = NoTwin

Next ==
    \/ RGNextPageFails
    \/ RGNextPage
    \/ RGVisit
    \/ RGReturn
    \/ RANextPageFails
    \/ RANextPage
    \/ RANoAssignments
    \/ RAQueryFails
    \/ RAQuery
    \/ RANextPrincipal
    \/ RADryRun
    \/ RADeleteByID
    \/ RADeleteByIDFails
    \/ RAReturn

Spec == Init /\ [][Next]_vars

----------------------------------------------------------------------------
(* A call of shouldDeleteResourceGroup on its own *)

EvalNames == { <<"a">>, <<"a", "b">>, <<"b", "a">> }

\* no pattern; a, a.+, ^a.+$, a|ab, ab|a; and ( and *a, which do not compile
EvalRegexes ==
    { defaultRegex,
      <<"a">>,
      <<"a", ".", "+">>,
      <<"^", "a", ".", "+", "$">>,
      <<"a", "|", "a", "b">>,
      <<"a", "b", "|", "a">>,
      <<"(">>,
      <<"*", "a">> }

EvalTTLs == { defaultTTL, Day, 0 - Hour }

\* wall times: four days, three days, one tick less than three days and one
\* day before Now0, and one hour after it
EvalWalls ==
    { Now0 - defaultTTL - Day, Now0 - defaultTTL, Now0 - defaultTTL + 1,
      Now0 - Day, Now0 + Hour }

\* zones: Z, +00:00, -00:00, +01:00, -01:00, +0000, -0000, +0100, and none
EvalZones ==
    { <<"Z", 0, FALSE>>, <<"+", 0, TRUE>>, <<"-", 0, TRUE>>, <<"+", 1, TRUE>>,
      <<"-", 1, TRUE>>, <<"+", 0, FALSE>>, <<"-", 0, FALSE>>, <<"+", 1, FALSE>>,
      <<"", 0, FALSE>> }

EvalTimestamps ==
    { Timestamp(w, f, z[1], z[2], z[3]) : w \in EvalWalls, f \in BOOLEAN, z \in EvalZones }
    \cup { NilString, StringPtr("text"), StringPtr("digits") }

EvalTags ==
    { Tags(ks, (doNotDeleteTag :> d) @@ (creationTimestampTag :> c)
                  @@ ("owner" :> StringPtr("text"))) :
        ks \in SUBSET {doNotDeleteTag, creationTimestampTag, "owner"},
        d \in {NilString, StringPtr("text")},
        c \in EvalTimestamps }

EvalGroups == { ResourceGroup(n, t) : n \in EvalNames, t \in EvalTags }

InitEval ==
    /\ o \in [dryRun : {FALSE}, ttl : EvalTTLs, regex : EvalRegexes,
              subscriptionID : {subscriptionID}]
    /\ pc = "eval"
    /\ now = Now0
    /\ result = ""
    /\ more = TRUE
    /\ fetched = 0
    /\ listed = {}
    /\ page = <<>>
    /\ rgTrace = <<>>
    /\ assigned = {}
    /\ principalToAssignmentIDs = NoCandidates
    /\ ranged = {}
    /\ pending = <<>>
    /\ raTrace = <<>>
    /\ rg \in EvalGroups
    /\ clock = <<Now0, Now0, Now0>>
    /\ verdict = Verdict("", FALSE)
    /\ earlier = Verdict("", FALSE)
    /\ completed = NoCompletions
    /\ twin = NoTwin

\* the call, with the clock advancing between the readings of line 291
Evaluate ==
    /\ pc = "eval"
    /\ \E d1, d2 \in 0 .. MaxDrift :
          /\ clock' = <<now, now + d1, now + d1 + d2>>
          /\ verdict' = shouldDeleteResourceGroup(rg, o.ttl, o.regex, clock')
          /\ now' = now + d1 + d2
    /\ pc' = "evaluated"
    /\ UNCHANGED <<o, result, rgVars, raVars, rg, earlier, sideVars>>

NextEval == Evaluate

SpecEval == InitEval /\ [][NextEval]_vars

----------------------------------------------------------------------------
(* Calls of shouldDeleteResourceGroup on one group, one after the other *)

AgainNames == { <<"a">>, <<"a", "b">> }

AgainRegexes == { defaultRegex, <<"a">>, <<"(">> }

\* creationTimestamp values: the wall times of EvalWalls written with Z, one
\* written with +0100, nil, text and digits
AgainTimestamps ==
    { Timestamp(w, FALSE, "Z", 0, FALSE) : w \in EvalWalls }
    \cup { Timestamp(Now0 - Day, FALSE, "+", 1, FALSE),
           NilString, StringPtr("text"), StringPtr("digits") }

AgainTags ==
    { Tags(ks, (doNotDeleteTag :> StringPtr("text")) @@ (creationTimestampTag :> c)
                  @@ ("owner" :> StringPtr("text"))) :
        ks \in SUBSET {doNotDeleteTag, creationTimestampTag, "owner"},
        c \in AgainTimestamps }

AgainGroups == { ResourceGroup(n, t) : n \in AgainNames, t \in AgainTags }

\* the latest instant at which a call returns
LastReturn == Now0 + MaxElapsed + 4 * MaxDrift

InitAgain ==
    /\ o \in [dryRun : {FALSE}, ttl : EvalTTLs, regex : AgainRegexes,
              subscriptionID : {subscriptionID}]
    /\ pc = "eval"
    /\ now = Now0
    /\ result = ""
    /\ more = TRUE
    /\ fetched = 0
    /\ listed = {}
    /\ page = <<>>
    /\ rgTrace = <<>>
    /\ assigned = {}
    /\ principalToAssignmentIDs = NoCandidates
    /\ ranged = {}
    /\ pending = <<>>
    /\ raTrace = <<>>
    /\ rg \in AgainGroups
    /\ clock = <<Now0, Now0, Now0>>
    /\ verdict = Verdict("", FALSE)
    /\ earlier = Verdict("", FALSE)
    /\ completed = NoCompletions
    /\ twin = NoTwin

\* another call with the same arguments, some time after the last returned
Reevaluate ==
    /\ pc \in {"evaluated", "reevaluated"}
    /\ ~verdict.panic
    /\ \E e \in 0 .. MaxElapsed, d1, d2 \in 0 .. MaxDrift :
          /\ now + e + d1 + d2 <= LastReturn
          /\ clock' = <<now + e, now + e + d1, now + e + d1 + d2>>
          /\ verdict' = shouldDeleteResourceGroup(rg, o.ttl, o.regex, clock')
          /\ now' = now + e + d1 + d2
    /\ earlier' = verdict
    /\ pc' = "reevaluated"
    /\ UNCHANGED <<o, result, rgVars, raVars, rg, sideVars>>

NextAgain ==
    \/ Evaluate
    \/ Reevaluate

SpecAgain == InitAgain /\ [][NextAgain]_vars

----------------------------------------------------------------------------
(* main, lines 164-222: a run of the program.  Here o is the options struct *)
(* of lines 113-124.  pc is "main" at the start, "cred" when the options   *)
(* are validated, "exit" when main has returned and "panic" when the       *)
(* process has terminated abnormally (panic, log.Fatal).                   *)

aadClientIDEnvVar == "AAD_CLIENT_ID"
aadClientSecretEnvVar == "AAD_CLIENT_SECRET"
tenantIDEnvVar == "TENANT_ID"
subscriptionIDEnvVar == "SUBSCRIPTION_ID"

\* fmt.Errorf("$%s is empty", envVar)
IsEmpty(envVar) == "$" \o envVar \o " is empty"

\* Faulty variant: the az-cli mode is looked at before the subscription ID.
validateModeFirst(op) ==
    IF op.cli THEN ""
    ELSE IF op.subscriptionID = "" THEN IsEmpty(subscriptionIDEnvVar)
    ELSE IF op.clientID = "" THEN IsEmpty(aadClientIDEnvVar)
    ELSE IF op.identity THEN ""
    ELSE IF op.clientSecret = "" THEN IsEmpty(aadClientSecretEnvVar)
    ELSE IF op.tenantID = "" THEN IsEmpty(tenantIDEnvVar)
    ELSE ""

\* options.validate: the text of the error, "" for nil
validate(op) ==
    IF op.subscriptionID = "" THEN IsEmpty(subscriptionIDEnvVar)
    ELSE IF op.cli THEN ""
    ELSE IF op.clientID = "" THEN IsEmpty(aadClientIDEnvVar)
    ELSE IF op.identity THEN ""
    ELSE IF op.clientSecret = "" THEN IsEmpty(aadClientSecretEnvVar)
    ELSE IF op.tenantID = "" THEN IsEmpty(tenantIDEnvVar)
    ELSE ""

\* getAzureCredential, lines 310-334: the credentials handed to
\* NewChainedTokenCredential
possibleTokens(op) ==
    IF op.identity THEN <<"ManagedIdentityCredential">>
    ELSE IF op.clientSecret # "" THEN <<"ClientSecretCredential">>
    ELSE IF op.cli THEN <<"AzureCLICredential">>
    ELSE <<>>

\* the values of -ttl the runs of main are tried on: the default and a
\* negative duration, which flag.DurationVar parses as it does any other
MainTTLs == { defaultTTL, 0 - Hour }

\* the options of the runs: what defineOptions reads from the environment
\* and the flags; an identifier that the chosen mode does not use is not set
MainOptions ==
    { op \in [clientID : {"", "client"}, clientSecret : {"", "secret"},
              tenantID : {"", "tenant"}, subscriptionID : {"", subscriptionID},
              dryRun : BOOLEAN, ttl : MainTTLs, identity : BOOLEAN,
              regex : {defaultRegex}, cli : BOOLEAN, roleAssignments : BOOLEAN] :
        /\ op.cli => (~op.identity /\ op.clientID = "")
        /\ (op.cli \/ op.identity) => (op.clientSecret = "" /\ op.tenantID = "") }

InitMain ==
    /\ o \in MainOptions
    /\ pc = "main"
    /\ now = Now0
    /\ result = ""
    /\ more = TRUE
    /\ fetched = 0
    /\ listed = {}
    /\ page = <<>>
    /\ rgTrace = <<>>
    /\ assigned = {}
    /\ principalToAssignmentIDs = NoCandidates
    /\ ranged = {}
    /\ pending = <<>>
    /\ raTrace = <<>>
    /\ rg = NoGroup
    /\ clock = <<Now0, Now0, Now0>>
    /\ verdict = Verdict("", FALSE)
    /\ earlier = Verdict("", FALSE)
    /\ completed = NoCompletions
    /\ twin = NoTwin

\* lines 170-174: the options are not valid
MainValidateFails ==
    /\ pc = "main"
    /\ validate(o) # ""
    /\ pc' = "panic"
    /\ UNCHANGED <<o, now, result, rgVars, raVars, evalVars,
                   sideVars>>

\* lines 170-178: the options are valid
MainValidated ==
    /\ pc = "main"
    /\ validate(o) = ""
    /\ pc' = "cred"
    /\ UNCHANGED <<o, now, result, rgVars, raVars, evalVars,
                   sideVars>>

\* lines 186-196: a credential or the resource-group client cannot be made
\* (NewChainedTokenCredential needs one credential at least)
MainSetUpFails ==
    /\ pc = "cred"
    /\ pc' = "panic"
    /\ UNCHANGED <<o, now, result, rgVars, raVars, evalVars,
                   sideVars>>

\* lines 186-198: the credential and the client are made and the sweep is
\* called
MainSweep ==
    /\ pc = "cred"
    /\ possibleTokens(o) # <<>>
    /\ pc' = "rg"
    /\ UNCHANGED <<o, now, result, rgVars, raVars, evalVars,
                   sideVars>>

\* main is where the sweep has returned to it
SweepReturnedToMain == pc = "ret" /\ raTrace = <<>>

\* Faulty variant: the error of the sweep is logged and main goes on to the
\* reconciliation.
MainSweepFailedAndGoesOn ==
    /\ SweepReturnedToMain
    /\ result = "error"
    /\ o.roleAssignments
    /\ pc' = "ra_list"
    /\ result' = ""
    /\ more' = TRUE
    /\ fetched' = 0
    /\ UNCHANGED <<o, now, listed, page, rgTrace, raVars, evalVars,
                   sideVars>>

\* lines 198-201: the sweep returned an error
MainSweepFailed ==
    /\ SweepReturnedToMain
    /\ result = "error"
    /\ pc' = "panic"
    /\ UNCHANGED <<o, now, result, rgVars, raVars, evalVars,
                   sideVars>>

\* lines 203, 219-222: no reconciliation is asked for
MainSkipsReconciliation ==
    /\ SweepReturnedToMain
    /\ result = "nil"
    /\ ~o.roleAssignments
    /\ pc' = "exit"
    /\ UNCHANGED <<o, now, result, rgVars, raVars, evalVars,
                   sideVars>>

\* lines 203-213: the role-assignment client or the graph client cannot be
\* made
MainReconcileSetUpFails ==
    /\ SweepReturnedToMain
    /\ result = "nil"
    /\ o.roleAssignments
    /\ pc' = "panic"
    /\ UNCHANGED <<o, now, result, rgVars, raVars, evalVars,
                   sideVars>>

\* lines 203-215, 344: the reconciliation is called; it lists with a pager
\* of its own
MainReconcile ==
    /\ SweepReturnedToMain
    /\ result = "nil"
    /\ o.roleAssignments
    /\ pc' = "ra_list"
    /\ result' = ""
    /\ more' = TRUE
    /\ fetched' = 0
    /\ UNCHANGED <<o, now, listed, page, rgTrace, raVars, evalVars,
                   sideVars>>

\* lines 215-218: the reconciliation returned an error
MainReconcileFailed ==
    /\ pc = "ret" /\ raTrace # <<>>
    /\ result = "error"
    /\ pc' = "panic"
    /\ UNCHANGED <<o, now, result, rgVars, raVars, evalVars,
                   sideVars>>

\* lines 215, 222: the reconciliation returned nil and main returns
MainReturn ==
    /\ pc = "ret" /\ raTrace # <<>>
    /\ result = "nil"
    /\ pc' = "exit"
    /\ UNCHANGED <<o, now, result, rgVars, raVars, evalVars,
                   sideVars>>

NextMain ==
    \/ MainValidateFails
    \/ MainValidated
    \/ MainSetUpFails
    \/ MainSweep
    \/ MainSweepFailed
    \/ MainSkipsReconciliation
    \/ MainReconcileSetUpFails
    \/ MainReconcile
    \/ MainReconcileFailed
    \/ MainReturn
    \/ Next

SpecMain == InitMain /\ [][NextMain]_vars

----------------------------------------------------------------------------
(* A call of any of the three functions *)

InitCalls == Init \/ InitEval

NextCalls == Next \/ NextEval

SpecCalls == InitCalls /\ [][NextCalls]_vars

----------------------------------------------------------------------------
(* Properties *)

\* the positions of rgTrace that hold an entry of kind op
RGEvents(op) == { i \in DOMAIN rgTrace : rgTrace[i].op = op }

\* the positions of raTrace that hold an entry of kind op
RAEvents(op) == { i \in DOMAIN raTrace : raTrace[i].op = op }

\* runResourceGroupCleanup has returned (it fetches a page before it returns)
SweepReturned == pc = "ret" /\ rgTrace # <<>>

\* the name gate of the evaluation under study is passed
GatePassed ==
    o.regex = <<>> \/ regexMatchesResourceGroupName(o.regex, rg.Name).match

\* some match of the pattern that starts at the start of the name ends at its end
MatchesEntirely(regex, name) ==
    /\ ~Compile(regex).err
    /\ LET es == MatchEnds(Compile(regex).rgx, name, 0)
       IN  \E k \in DOMAIN es : es[k] = Len(name)

\* the layouts that parse the value
ParsingLayouts(v) ==
    { k \in DOMAIN rfc3339Layouts : ~ParseTime(rfc3339Layouts[k], v).err }

\* the instant the first parsing layout gives
CreationTime(v) ==
    ParseTime(rfc3339Layouts[CHOOSE k \in ParsingLayouts(v) :
                                \A j \in ParsingLayouts(v) : k <= j], v).t

HasTimestamp ==
    /\ creationTimestampTag \in DOMAIN rg.Tags
    /\ ~rg.Tags[creationTimestampTag].null

\* C1: in a sweep no BeginDelete is issued for a resource group whose tags
\* contain the key DO-NOT-DELETE, whatever pages were listed and whatever
\* delete submissions failed.
C1_NoDeleteOfOptedOut ==
    \A i \in RGEvents("BeginDelete") :
        doNotDeleteTag \notin DOMAIN rgTrace[i].rg.Tags

\* a sweep that deletes, in which a delete submission failed, then an old
\* group with the opt-out tag was visited, and a later group was deleted
C1_Witness ==
    /\ ~o.dryRun /\ o.regex = defaultRegex
    /\ \E j \in RGEvents("shouldDeleteResourceGroup") :
          /\ doNotDeleteTag \in DOMAIN rgTrace[j].rg.Tags
          /\ \E i \in RGEvents("BeginDelete") : i < j /\ ~rgTrace[i].ok
          /\ \E k \in RGEvents("BeginDelete") : k > j

\* C2: for a resource group whose tags contain the key DO-NOT-DELETE, with any
\* value or none, shouldDeleteResourceGroup returns ("", false), whatever the
\* age, the name, the pattern and the creationTimestamp tag.
C2_OptOutVetoes ==
    (pc = "evaluated" /\ doNotDeleteTag \in DOMAIN rg.Tags)
        => verdict = Verdict("", FALSE)

\* an opted-out group four days old whose name the pattern ^a.+$ matches
C2_Witness ==
    /\ pc = "evaluated"
    /\ doNotDeleteTag \in DOMAIN rg.Tags
    /\ o.regex = <<"^", "a", ".", "+", "$">> /\ rg.Name = <<"a", "b">>
    /\ o.ttl = defaultTTL
    /\ creationTimestampTag \in DOMAIN rg.Tags
    /\ rg.Tags[creationTimestampTag] = Created(defaultTTL + Day)
    /\ verdict = Verdict("", FALSE)

\* C3: with a non-empty pattern, shouldDeleteResourceGroup returns eligible
\* only if the pattern matches the entire name; when the pattern cannot match
\* the entire name, the verdict is ("", false) whatever the tags and the age.
C3_PartialMatchNotEligible ==
    (pc = "evaluated" /\ o.regex # <<>>)
        => /\ verdict.ok => MatchesEntirely(o.regex, rg.Name)
           /\ ~MatchesEntirely(o.regex, rg.Name) => verdict = Verdict("", FALSE)

\* the pattern a and the name ab, for a group without tags
C3_Witness ==
    /\ pc = "evaluated"
    /\ o.regex = <<"a">> /\ rg.Name = <<"a", "b">>
    /\ rg.Tags = NoTags
    /\ verdict = Verdict("", FALSE)

\* C4: for a group without the opt-out tag that passes the name gate and has a
\* parsable creationTimestamp, eligible is true exactly when the age at the
\* comparison, clock[3] - creation time, is at least ttl.
C4_EligibleIffAgeAtLeastTTL ==
    (/\ pc = "evaluated"
     /\ doNotDeleteTag \notin DOMAIN rg.Tags
     /\ GatePassed
     /\ HasTimestamp
     /\ ParsingLayouts(rg.Tags[creationTimestampTag]) # {})
        => /\ ~verdict.panic
           /\ verdict.ok <=>
                 clock[3] - CreationTime(rg.Tags[creationTimestampTag]) >= o.ttl

\* a group whose name matches the pattern and whose age is exactly ttl
C4_Witness ==
    /\ pc = "evaluated"
    /\ doNotDeleteTag \notin DOMAIN rg.Tags
    /\ o.regex = <<"a", ".", "+">> /\ rg.Name = <<"a", "b">>
    /\ HasTimestamp
    /\ ParsingLayouts(rg.Tags[creationTimestampTag]) # {}
    /\ clock[3] - CreationTime(rg.Tags[creationTimestampTag]) = o.ttl
    /\ o.ttl = defaultTTL
    /\ verdict.ok

InvalidPatterns == { <<"(">>, <<"*", "a">> }

\* C7: with a pattern that does not compile, shouldDeleteResourceGroup returns
\* ("", false) for every group without a crash, and a sweep issues no delete
\* request and returns nil unless a page fetch fails.
C7_InvalidPatternFailsClosed ==
    o.regex \in InvalidPatterns
        => /\ pc = "evaluated" => verdict = Verdict("", FALSE)
           /\ \A i \in RGEvents("shouldDeleteResourceGroup") :
                 ~rgTrace[i].ok /\ rgTrace[i].age = ""
           /\ RGEvents("BeginDelete") = {}
           /\ pc # "panic"
           /\ (SweepReturned /\ \A i \in RGEvents("NextPage") : rgTrace[i].ok)
                 => result = "nil"

\* a sweep that deletes, run with the pattern (, has visited a group without
\* tags and a four-day-old group and has returned nil
C7_Witness ==
    /\ o.regex = <<"(">> /\ ~o.dryRun
    /\ pc = "ret" /\ result = "nil"
    /\ \E i, j \in RGEvents("shouldDeleteResourceGroup") :
          /\ rgTrace[i].rg.Tags = NoTags
          /\ DOMAIN rgTrace[j].rg.Tags = {creationTimestampTag}
          /\ rgTrace[j].rg.Tags[creationTimestampTag] = Created(defaultTTL + Day)

\* the assignment IDs left in the candidate map
CandidateIDs ==
    UNION { { principalToAssignmentIDs[p][k] : k \in DOMAIN principalToAssignmentIDs[p] } :
            p \in DOMAIN principalToAssignmentIDs }

\* C8: in dry-run mode no BeginDelete and no DeleteByID is issued; every
\* eligible resource group gets the dry-run log line, and when the
\* reconciliation has returned nil every orphaned assignment has got one.
C8_DryRunDeletesNothing ==
    o.dryRun
        => /\ RGEvents("BeginDelete") = {}
           /\ RAEvents("DeleteByID") = {}
           /\ \A i \in RGEvents("shouldDeleteResourceGroup") :
                 rgTrace[i].ok
                    => /\ i < Len(rgTrace)
                       /\ rgTrace[i + 1] =
                             RGEvent("log: Dry-run: skip deletion",
                                     rgTrace[i].rg, rgTrace[i].age, TRUE)
           /\ (pc = "ret" /\ result = "nil" /\ raTrace # <<>>)
                 => { raTrace[i].id : i \in RAEvents("log: Dry-run: skip deletion") }
                       = CandidateIDs

\* a dry-run reconciliation that has returned nil after logging the two
\* assignments of a principal the directory did not return
C8_Witness ==
    /\ o.dryRun
    /\ pc = "ret" /\ result = "nil"
    /\ Cardinality(RAEvents("log: Dry-run: skip deletion")) = 2
    /\ CandidateIDs = {"A2", "A3"}
    /\ RAEvents("DeleteByID") = {}

\* the names of the groups that have been evaluated
EvaluatedNames ==
    { rgTrace[i].rg.Name : i \in RGEvents("shouldDeleteResourceGroup") }

\* C9: a failing BeginDelete does not end the sweep: every group the listing
\* handed out is evaluated or still to be visited, every eligible group gets
\* its own BeginDelete, and the sweep returns nil when no page fetch failed,
\* whatever the delete submissions answered.
C9_DeleteFailureDoesNotAbort ==
    (pc \in {"rg", "ret"} /\ ~o.dryRun)
        => /\ EvaluatedNames \cup { page[i].Name : i \in DOMAIN page } = listed
           /\ \A i \in RGEvents("shouldDeleteResourceGroup") :
                 rgTrace[i].ok
                    => /\ i + 2 <= Len(rgTrace)
                       /\ rgTrace[i + 2].op = "BeginDelete"
                       /\ rgTrace[i + 2].rg = rgTrace[i].rg
           /\ (SweepReturned /\ \A i \in RGEvents("NextPage") : rgTrace[i].ok)
                 => result = "nil"

\* a sweep that has returned nil after three delete submissions, all failed:
\* two for groups of the first page and one for a group of the second
C9_Witness ==
    /\ pc = "ret" /\ result = "nil" /\ ~o.dryRun
    /\ Cardinality(RGEvents("BeginDelete")) = 3
    /\ \A i \in RGEvents("BeginDelete") : ~rgTrace[i].ok
    /\ Cardinality(RGEvents("NextPage")) = 2
    /\ \E n \in RGEvents("NextPage") :
          /\ Cardinality({ d \in RGEvents("BeginDelete") : d < n }) = 2
          /\ Cardinality({ d \in RGEvents("BeginDelete") : d > n }) = 1

\* C10: a failed page fetch ends the sweep at once with an error: it is the
\* last entry of the trace, so no page is fetched, no group is evaluated and
\* no delete request is issued after it.
C10_PageFetchErrorAborts ==
    \A i \in RGEvents("NextPage") :
        ~rgTrace[i].ok
            => /\ i = Len(rgTrace)
               /\ pc = "ret"
               /\ result = "error"

\* the fetch of the second page failed after a group of the first page had
\* its delete request
C10_Witness ==
    /\ pc = "ret" /\ result = "error"
    /\ fetched = 1
    /\ RGEvents("BeginDelete") # {}
    /\ ~rgTrace[Len(rgTrace)].ok /\ rgTrace[Len(rgTrace)].op = "NextPage"

\* the reconciliation has been started
Reconciling == pc \in {"ra_list", "ra_delete"} \/ (pc = "ret" /\ raTrace # <<>>)

\* the principal IDs the directory has returned as existing
ReturnedAsExisting ==
    UNION { raTrace[i].ids : i \in RAEvents("GetByIds: response") }

\* the assignment IDs for which a DeleteByID was issued
DeleteRequested == { raTrace[i].id : i \in RAEvents("DeleteByID") }

\* the listed assignments that pass the filters of phase 1, as the claims
\* state them: a service principal, the scope of the subscription itself, a
\* principal ID and an ID
ListedCandidates ==
    { a \in assigned :
        /\ a.Properties.PrincipalType = Ptr("ServicePrincipal")
        /\ a.Properties.Scope = Ptr("/subscriptions/" \o o.subscriptionID)
        /\ a.Properties.PrincipalID # NilPtr
        /\ a.ID # NilPtr }

\* C11: no DeleteByID is issued for an assignment of a principal the
\* directory returned as existing; and when a reconciliation that deletes has
\* returned nil, every DeleteByID succeeded and the deleted assignments are
\* exactly the listed candidates whose principal the directory did not return.
C11_OnlyOrphansDeleted ==
    /\ \A a \in assigned :
          (~a.ID.null /\ a.ID.v \in DeleteRequested /\ ~a.Properties.PrincipalID.null)
             => a.Properties.PrincipalID.v \notin ReturnedAsExisting
    /\ (pc = "ret" /\ raTrace # <<>> /\ result = "nil" /\ ~o.dryRun)
          => /\ \A i \in RAEvents("DeleteByID") : raTrace[i].ok
             /\ DeleteRequested =
                   { a.ID.v : a \in { c \in ListedCandidates :
                        c.Properties.PrincipalID.v \notin ReturnedAsExisting } }

\* candidates {P1: [A1], P2: [A2, A3]}, the directory returned P1 only, and
\* the reconciliation has returned nil after deleting A2 and A3
C11_Witness ==
    /\ pc = "ret" /\ result = "nil" /\ ~o.dryRun
    /\ { a.ID.v : a \in ListedCandidates } = {"A1", "A2", "A3"}
    /\ ReturnedAsExisting = {"P1"}
    /\ DeleteRequested = {"A2", "A3"}
    /\ \A i \in RAEvents("DeleteByID") : raTrace[i].ok

\* C12: during and after phase 1 an assignment ID is in the candidate map
\* under principal p exactly when a listed assignment has that ID, principal
\* type ServicePrincipal, the scope "/subscriptions/<subscriptionID>" itself
\* and the principal ID p; and every DeleteByID is for such an assignment.
C12_CandidatesAreFilteredListing ==
    /\ pc = "ra_list"
          => \A p \in {"P1", "P2"}, id \in {"A1", "A2", "A3", "A4", "A5", "A6", "A7", "A8", "A9", ""} :
                (/\ p \in DOMAIN principalToAssignmentIDs
                 /\ \E k \in DOMAIN principalToAssignmentIDs[p] :
                       principalToAssignmentIDs[p][k] = id)
                   <=> \E a \in ListedCandidates :
                          a.ID = Ptr(id) /\ a.Properties.PrincipalID = Ptr(p)
    /\ pc = "ra_list" => DOMAIN principalToAssignmentIDs \subseteq {"P1", "P2"}
    /\ DeleteRequested \subseteq { a.ID.v : a \in ListedCandidates }

\* phase 1 is through: the listing handed out A1, the assignment of a user,
\* an assignment scoped to a resource group and one without an ID, and the
\* candidate map is {P1: [A1]}
C12_Witness ==
    /\ pc = "ra_list" /\ ~more
    /\ { a.ID : a \in assigned } = {Ptr("A1"), Ptr("A4"), Ptr("A7"), NilPtr}
    /\ principalToAssignmentIDs = [p \in {"P1"} |-> <<"A1">>]

\* C13: when phase 1 ends with an empty candidate map, the only step of the
\* reconciliation is the return of nil; no GetByIds and no DeleteByID is
\* issued in that run.
C13_NothingCollectedReturnsAtOnce ==
    (Reconciling /\ ~more /\ ListedCandidates = {})
        => /\ RAEvents("GetByIds") = {}
           /\ RAEvents("DeleteByID") = {}
           /\ pc \in {"ra_list", "ret"}
           /\ pc = "ret" => /\ result = "nil"
                            /\ raTrace[Len(raTrace)].op = "log: No role assignments found"
                            /\ raTrace[Len(raTrace) - 1].op = "NextPage"

\* two pages were listed, none of their four assignments passed the filters,
\* and the reconciliation has returned nil
C13_Witness ==
    /\ pc = "ret" /\ result = "nil"
    /\ Cardinality(assigned) = 4 /\ fetched = 2
    /\ ListedCandidates = {}
    /\ RAEvents("GetByIds") = {}

\* the candidate assignments for which no DeleteByID succeeded
Undeleted ==
    CandidateIDs \ { raTrace[i].id : i \in { j \in RAEvents("DeleteByID") : raTrace[j].ok } }

\* C14: a failing DeleteByID ends the reconciliation: it is the last entry of
\* the trace, the run has returned an error, and so there is one failing
\* DeleteByID at most and no delete request after it.
C14_FirstDeleteFailureStops ==
    \A i \in RAEvents("DeleteByID") :
        ~raTrace[i].ok
            => /\ i = Len(raTrace)
               /\ pc = "ret"
               /\ result = "error"

\* of the orphaned assignments A1, A2 and A3 one was deleted, the delete of
\* the next failed, and the third is left undeleted without a request
C14_Witness ==
    /\ pc = "ret" /\ result = "error" /\ ~o.dryRun
    /\ CandidateIDs = {"A1", "A2", "A3"}
    /\ Cardinality(RAEvents("DeleteByID")) = 2
    /\ ~raTrace[Len(raTrace)].ok /\ raTrace[Len(raTrace)].op = "DeleteByID"
    /\ Cardinality(Undeleted) = 2
    /\ Cardinality(Undeleted \ DeleteRequested) = 1

\* C15: when a page fetch of phase 1 or the directory query has failed, the
\* run has returned an error and has issued no DeleteByID; after a failed page
\* fetch it has issued no GetByIds either.
C15_ListingOrQueryFailureAborts ==
    /\ (\E i \in RAEvents("NextPage") : ~raTrace[i].ok)
          => /\ pc = "ret" /\ result = "error"
             /\ RAEvents("DeleteByID") = {}
             /\ RAEvents("GetByIds") = {}
    /\ (\E i \in RAEvents("GetByIds") : ~raTrace[i].ok)
          => /\ pc = "ret" /\ result = "error"
             /\ RAEvents("DeleteByID") = {}

\* the directory query for P1 and P2 failed after two pages with the
\* candidates A1, A2 and A3 were listed
C15_Witness ==
    /\ pc = "ret" /\ result = "error" /\ ~o.dryRun
    /\ fetched = 2
    /\ CandidateIDs = {"A1", "A2", "A3"}
    /\ raTrace[Len(raTrace)] = RAEvent("GetByIds", "", {"P1", "P2"}, FALSE)

\* the fetch of the second page failed after the first page gave the
\* candidates A2 and A3
C15_PageFailureReached ==
    /\ pc = "ret" /\ result = "error" /\ ~o.dryRun
    /\ fetched = 1
    /\ CandidateIDs = {"A2", "A3"}
    /\ raTrace[Len(raTrace)] = RAEvent("NextPage", "", {}, FALSE)

\* the whole units of length unit in the age a, counted toward zero
WholeUnits(a, unit) ==
    CHOOSE n \in -(12 * HoursPerDay) .. 12 * HoursPerDay :
        IF a >= 0 THEN n * unit <= a /\ a < (n + 1) * unit
        ELSE n * unit >= a /\ a > (n - 1) * unit

\* the evaluation under study got as far as the age: no opt-out tag, the name
\* gate passed, a creationTimestamp that some layout parses
AgeComputed ==
    /\ pc \in {"evaluated", "reevaluated"}
    /\ doNotDeleteTag \notin DOMAIN rg.Tags
    /\ GatePassed
    /\ HasTimestamp
    /\ ParsingLayouts(rg.Tags[creationTimestampTag]) # {}

\* the age at the k-th reading of the clock
AgeAt(k) == clock[k] - CreationTime(rg.Tags[creationTimestampTag])

\* What holds of the description: D is the whole days of the age at the first
\* reading of the clock and H the whole hours of the age at the second, whether
\* or not the group is eligible; an age of four days gives "4 days (96 hours)"
\* and is eligible under a ttl of three days, an age of one day gives
\* "1 days (24 hours)" and is not.
DescriptionIsPerReading ==
    AgeComputed
        => /\ verdict.age = ToString(WholeUnits(AgeAt(1), Day)) \o " days ("
                               \o ToString(WholeUnits(AgeAt(2), Hour)) \o " hours)"
           /\ (AgeAt(1) = 4 * Day /\ AgeAt(2) = 4 * Day)
                 => verdict.age = "4 days (96 hours)"
           /\ (AgeAt(1) = Day /\ AgeAt(2) = Day)
                 => verdict.age = "1 days (24 hours)"
           /\ (AgeAt(3) = 4 * Day /\ o.ttl = 3 * Day) => verdict.ok
           /\ (AgeAt(3) = Day /\ o.ttl = 3 * Day) => ~verdict.ok

\* C16: for a group that gets as far as the age, the description is
\* "<D> days (<H> hours)" with D the whole days and H the whole hours of the
\* age A of the group, A being the age at some instant of the evaluation.
C16_DescriptionIsWholeDaysAndHours ==
    AgeComputed
        => \E A \in AgeAt(1) .. AgeAt(3) :
              verdict.age = ToString(WholeUnits(A, Day)) \o " days ("
                               \o ToString(WholeUnits(A, Hour)) \o " hours)"

\* a group one day old, not eligible under a ttl of three days, described as
\* "1 days (24 hours)"
C16_OneDayReached ==
    /\ AgeComputed
    /\ o.ttl = 3 * Day
    /\ AgeAt(1) = Day /\ AgeAt(3) = Day
    /\ verdict = Verdict("1 days (24 hours)", FALSE)

\* a group four days old, eligible, described as "4 days (96 hours)"
C16_FourDaysReached ==
    /\ AgeComputed
    /\ o.ttl = 3 * Day
    /\ AgeAt(1) = 4 * Day /\ AgeAt(3) = 4 * Day
    /\ verdict = Verdict("4 days (96 hours)", TRUE)

\* a group whose creationTimestamp lies in the future
C16_NegativeAgeReached ==
    /\ AgeComputed
    /\ AgeAt(2) < 0 /\ AgeAt(2) % Hour # 0

C17_VerdictChangedReached ==
    /\ pc = "reevaluated"
    /\ AgeComputed /\ o.ttl = defaultTTL
    /\ ~earlier.ok /\ verdict.ok

\* the options do not pass the validation, as the claim states it
OptionsRejected ==
    \/ o.subscriptionID = ""
    \/ ~o.cli /\ o.clientID = ""
    \/ ~o.cli /\ ~o.identity /\ (o.clientSecret = "" \/ o.tenantID = "")

\* C18: in a run of main whose options do not pass the validation, the
\* process terminates abnormally at its first step and no NextPage,
\* BeginDelete, GetByIds or DeleteByID is ever issued.
C18_InvalidOptionsStopTheRun ==
    OptionsRejected
        => /\ pc \in {"main", "panic"}
           /\ rgTrace = <<>>
           /\ raTrace = <<>>
           /\ result = ""

\* a run in az-cli mode without a subscription ID has terminated abnormally
C18_Witness ==
    /\ pc = "panic"
    /\ o.cli /\ o.subscriptionID = ""
    /\ o.roleAssignments /\ ~o.dryRun
    /\ rgTrace = <<>> /\ raTrace = <<>>

\* a run in az-cli mode with a subscription ID lists, deletes and reconciles
C18_ValidRunReached ==
    /\ pc = "exit"
    /\ o.cli /\ o.subscriptionID # ""
    /\ RGEvents("BeginDelete") # {}
    /\ RAEvents("DeleteByID") # {}

C19_ThirdLayoutReached ==
    /\ pc = "evaluated"
    /\ doNotDeleteTag \notin DOMAIN rg.Tags
    /\ o.regex = defaultRegex
    /\ HasTimestamp
    /\ ParsingLayouts(rg.Tags[creationTimestampTag]) = {3}
    /\ verdict.age # ""

\* C20: in a sweep that deletes, every BeginDelete comes right after an
\* evaluation of the same group that returned eligible (and its log line),
\* every evaluation that returned eligible is followed by one, no group gets
\* two, every listed group is evaluated once, and no page is fetched after a
\* fetch that failed.
C20_OneDeletePerEligibleGroup ==
    (pc \in {"rg", "ret"} /\ rgTrace # <<>> /\ ~o.dryRun)
        => /\ \A i \in RGEvents("BeginDelete") :
                 /\ i > 2
                 /\ rgTrace[i - 2].op = "shouldDeleteResourceGroup"
                 /\ rgTrace[i - 2].rg = rgTrace[i].rg
                 /\ rgTrace[i - 2].ok
           /\ \A i \in RGEvents("shouldDeleteResourceGroup") :
                 rgTrace[i].ok <=>
                    \E j \in RGEvents("BeginDelete") :
                        j > i /\ rgTrace[j].rg.Name = rgTrace[i].rg.Name
           /\ \A i, j \in RGEvents("BeginDelete") :
                 rgTrace[i].rg.Name = rgTrace[j].rg.Name => i = j
           /\ \A i, j \in RGEvents("shouldDeleteResourceGroup") :
                 rgTrace[i].rg.Name = rgTrace[j].rg.Name => i = j
           /\ EvaluatedNames \cap { page[i].Name : i \in DOMAIN page } = {}
           /\ Cardinality({ i \in RGEvents("NextPage") : rgTrace[i].ok }) = fetched
           /\ \A i \in RGEvents("NextPage") : ~rgTrace[i].ok => i = Len(rgTrace)

\* a sweep of two pages has returned nil: the delete of one group failed, the
\* delete of another succeeded, and a group that was not eligible got none
C20_Witness ==
    /\ pc = "ret" /\ result = "nil" /\ ~o.dryRun
    /\ fetched = 2
    /\ \E i, j \in RGEvents("BeginDelete") : ~rgTrace[i].ok /\ rgTrace[j].ok /\ i < j
    /\ \E k \in RGEvents("shouldDeleteResourceGroup") : ~rgTrace[k].ok
    /\ Cardinality(RGEvents("BeginDelete")) = 2
    /\ Cardinality(RGEvents("shouldDeleteResourceGroup")) = 3

----------------------------------------------------------------------------
(* C21: delete requests and a failed page fetch *)

\* the positions of rgTrace at which a page fetch failed
FailedFetches == { i \in RGEvents("NextPage") : ~rgTrace[i].ok }

\* C21, as it is claimed: when a page fetch of the sweep has failed, the sweep
\* has issued no delete request at all, not even for a group of a page that
\* was fetched before the failure.
C21_NoDeleteWhenAFetchFails ==
    FailedFetches # {} => RGEvents("BeginDelete") = {}

\* C21, amended: when a page fetch of the sweep has failed, every delete
\* request of the sweep was issued before the failed fetch, after a fetch that
\* succeeded, and for a group that a fetched page had handed out: the failure
\* adds no delete request, and it takes back none.
C21_DeletesPrecedeFailedFetch ==
    \A i \in FailedFetches :
        \A j \in RGEvents("BeginDelete") :
            /\ j < i
            /\ \E k \in RGEvents("NextPage") : k < j /\ rgTrace[k].ok
            /\ rgTrace[j].rg.Name \in listed

\* the fetch of the second page failed after both groups of the first page
\* had their delete requests
C21_Witness ==
    /\ FailedFetches # {}
    /\ Cardinality(RGEvents("BeginDelete")) = 2
    /\ Cardinality(RGEvents("NextPage")) = 2

----------------------------------------------------------------------------
(* The sweep and the deletions it has begun *)

\* the resource groups whose deletion a BeginDelete of the sweep has started
Begun ==
    { rgTrace[i].rg.Name : i \in { j \in RGEvents("BeginDelete") : rgTrace[j].ok } }

\* the deletions that Azure has not finished yet
InProgress == Begun \ DOMAIN completed

\* how a long-running deletion can end
Outcomes == { "Succeeded", "Failed" }

\* line 244: Azure finishes a deletion that BeginDelete started.  The poller
\* that would report the outcome is discarded (_, err = r.BeginDelete), so the
\* outcome reaches no variable of the sweep.
DeletionCompletes ==
    /\ \E n \in InProgress, outcome \in Outcomes :
          completed' = (n :> outcome) @@ completed
    /\ UNCHANGED <<o, pc, now, result, rgVars, raVars, evalVars, twin>>

\* a step of runResourceGroupCleanup
SweepStep ==
    \/ RGNextPageFails
    \/ RGNextPage
    \/ RGVisit
    \/ RGReturn

\* a sweep that deletes, with the deletions it begins going on beside it
InitAsync ==
    /\ Init
    /\ pc = "rg"
    /\ ~o.dryRun

NextAsync ==
    \/ SweepStep
    \/ DeletionCompletes

SpecAsync == InitAsync /\ [][NextAsync]_vars

C22_ReturnedBeforeCompletionReached ==
    SweepReturned /\ InProgress # {}

\* a sweep returned nil although a deletion it had begun has failed
C22_FailedDeletionReached ==
    /\ SweepReturned /\ result = "nil"
    /\ \E n \in DOMAIN completed : completed[n] = "Failed"

----------------------------------------------------------------------------
(* C23: the one query of the directory *)

\* the principal IDs of the candidates among the listed role assignments
ListedPrincipals == { a.Properties.PrincipalID.v : a \in ListedCandidates }

\* C23: a run of runRoleAssignmentCleanup asks the directory at most once.
\* The query is issued when the pager has no more pages, after every page
\* fetch, each of which succeeded; it carries the principal IDs of the
\* candidates among the listed role assignments, no more and no fewer (the
\* keys of the map, so each once); and every delete request for a role
\* assignment comes after the response to the query.
C23_OneQueryAfterTheListing ==
    /\ Cardinality(RAEvents("GetByIds")) <= 1
    /\ \A q \in RAEvents("GetByIds") :
          /\ ~more
          /\ \A i \in RAEvents("NextPage") : i < q /\ raTrace[i].ok
          /\ raTrace[q].ids = ListedPrincipals
    /\ \A j \in RAEvents("DeleteByID") :
          \E q \in RAEvents("GetByIds"), r \in RAEvents("GetByIds: response") :
              q < r /\ r < j

\* the directory was asked about two principals after two pages had been
\* listed, and a role assignment was deleted after its answer
C23_Witness ==
    /\ Cardinality(RAEvents("NextPage")) = 2
    /\ \E q \in RAEvents("GetByIds") : Cardinality(raTrace[q].ids) = 2
    /\ RAEvents("DeleteByID") # {}

----------------------------------------------------------------------------
(* C24: the sweep ends by returning *)

\* the run is a run of runResourceGroupCleanup
Sweeping == pc = "rg" \/ rgTrace # <<>>

\* C24: a sweep over a finite page sequence ends by returning.  Where it
\* stands it either can take its next step (the listing has MaxPages pages
\* at most and every step consumes an entry or a page), or it has returned:
\* nil when the pager had no more pages and every fetch had succeeded, the
\* error when the last thing it did was a page fetch that failed.
C24_SweepEndsByReturning ==
    Sweeping =>
        \/ pc = "rg" /\ ENABLED SweepStep
        \/ /\ pc = "ret" /\ result = "nil"
           /\ ~more /\ page = <<>> /\ FailedFetches = {}
        \/ /\ pc = "ret" /\ result = "error"
           /\ FailedFetches = { Len(rgTrace) }

\* a sweep ended without returning: the evaluation of a listed group
\* panicked
C24_EndedInPanicReached ==
    Sweeping /\ pc = "panic"

\* the sweeps that do return: nil after the last page, and the error at the
\* first failed fetch
C24_ReturnedNilReached ==
    /\ pc = "ret" /\ result = "nil" /\ Cardinality(RGEvents("NextPage")) = MaxPages

C24_ReturnedErrorReached ==
    /\ pc = "ret" /\ result = "error" /\ Cardinality(RGEvents("NextPage")) = MaxPages

----------------------------------------------------------------------------
(* C25: the name gate and the match of the entire name *)

\* C25: the name gate is passed exactly by the patterns that can match the
\* entire name: for every pattern that compiles and every name, line 306
\* answers true if and only if the pattern has a match that starts at the
\* first character of the name and ends at its last.
C25_GateIsEntireMatch ==
    (pc = "evaluated" /\ o.regex # <<>>)
        => (regexMatchesResourceGroupName(o.regex, rg.Name).match
                <=> MatchesEntirely(o.regex, rg.Name))

\* the pattern a|ab matches all of the name ab, and the gate rejects it:
\* FindString returns the leftmost-first match "a"
C25_AlternationRejectedReached ==
    /\ pc = "evaluated"
    /\ o.regex = <<"a", "|", "a", "b">> /\ rg.Name = <<"a", "b">>
    /\ MatchesEntirely(o.regex, rg.Name)
    /\ ~regexMatchesResourceGroupName(o.regex, rg.Name).match

\* with the alternatives in the other order the same name passes the gate
C25_AlternationPassedReached ==
    /\ pc = "evaluated"
    /\ o.regex = <<"a", "b", "|", "a">> /\ rg.Name = <<"a", "b">>
    /\ regexMatchesResourceGroupName(o.regex, rg.Name).match

----------------------------------------------------------------------------
(* C26: ttl and the timestamps of the future *)

\* the positions of rgTrace at which a group with a creationTimestamp later
\* than the clock was found eligible
EligibleFromTheFuture ==
    { i \in RGEvents("shouldDeleteResourceGroup") :
        /\ rgTrace[i].ok
        /\ creationTimestampTag \in DOMAIN rgTrace[i].rg.Tags
        /\ CreationTime(rgTrace[i].rg.Tags[creationTimestampTag]) > now }

\* C26: no run of main reaches runResourceGroupCleanup with a negative ttl,
\* and so no resource group whose creationTimestamp lies in the future is
\* found eligible.
C26_TTLIsNeverNegative ==
    InMain => /\ pc = "rg" => o.ttl >= 0
              /\ EligibleFromTheFuture = {}

\* main ran the sweep with -ttl=-1h and asked for the deletion of a group
\* whose creationTimestamp is an hour ahead of the clock
C26_FutureGroupDeletedReached ==
    /\ InMain /\ o.ttl < 0
    /\ \E i \in EligibleFromTheFuture :
          \E j \in RGEvents("BeginDelete") : j > i /\ rgTrace[j].rg = rgTrace[i].rg

\* with the default ttl the same group is not eligible
C26_FutureGroupKeptReached ==
    /\ InMain /\ o.ttl = defaultTTL
    /\ \E i \in RGEvents("shouldDeleteResourceGroup") :
          rgTrace[i].rg.Name = <<"b">> /\ ~rgTrace[i].ok

----------------------------------------------------------------------------
(* C27: main starts the reconciliation after a sweep without error *)

\* C27: in a run of main the reconciliation is running or has run only if
\* role-assignments is set and the sweep has come to its end without a failed
\* page fetch; and once a page fetch of the sweep has failed, main has made
\* no step of the reconciliation (no listing, no directory query, no
\* deletion of a role assignment), and where the sweep has returned the
\* error the only step main can take is the one that ends the process.
C27_ReconciliationAfterCleanSweep ==
    InMain =>
        /\ Reconciling
              => /\ o.roleAssignments
                 /\ RGEvents("NextPage") # {}
                 /\ FailedFetches = {}
                 /\ page = <<>>
        /\ FailedFetches # {}
              => /\ raTrace = <<>>
                 /\ pc \in {"ret", "panic"}
        /\ (SweepReturnedToMain /\ result = "error")
              => /\ ENABLED MainSweepFailed
                 /\ ~ENABLED MainReconcile
                 /\ ~ENABLED MainSkipsReconciliation

\* the reconciliation asked the directory after a sweep that had issued a
\* delete request and returned nil
C27_Witness ==
    /\ InMain
    /\ RAEvents("GetByIds") # {}
    /\ RGEvents("BeginDelete") # {}

\* a run with role-assignments set ended abnormally on the error of the sweep
C27_SweepErrorReached ==
    /\ InMain /\ o.roleAssignments
    /\ pc = "panic" /\ FailedFetches # {}

----------------------------------------------------------------------------
(* C28: a creationTimestamp tag without a value *)

\* the resource group has the creationTimestamp key with a nil value
NilTimestamp(g) ==
    /\ creationTimestampTag \in DOMAIN g.Tags
    /\ g.Tags[creationTimestampTag].null

\* C28: shouldDeleteResourceGroup returns a verdict for every tag mapping:
\* the evaluation never panics, and a group whose creationTimestamp key has
\* a nil value gets the verdict of an unparsable timestamp, ("", false).
C28_NilTimestampIsNotEligible ==
    pc = "evaluated"
        => /\ ~verdict.panic
           /\ NilTimestamp(rg) => verdict = Verdict("", FALSE)

\* the evaluation of a group with a nil creationTimestamp reached line 280
\* and panicked
C28_PanicReached ==
    /\ pc = "evaluated"
    /\ NilTimestamp(rg) /\ ~OptedOut(rg) /\ GatePassed
    /\ verdict.panic

\* a group with a nil creationTimestamp that is marked DO-NOT-DELETE, or whose
\* name does not pass the gate, gets its verdict before line 280
C28_NilNotReadReached ==
    /\ pc = "evaluated"
    /\ NilTimestamp(rg) /\ (OptedOut(rg) \/ ~GatePassed)
    /\ verdict = Verdict("", FALSE)

\* in a sweep, the panic ends the run with entries of the page not visited
C28_SweepCrashedReached ==
    /\ pc = "panic" /\ rgTrace # <<>>
    /\ Len(page) = 1

----------------------------------------------------------------------------
(* C29: one age behind the days, the hours and the verdict *)

\* C29: the description and the eligibility come from one age A of the
\* group, an age it has at some instant of the evaluation: the description
\* reports the whole hours H of A and, as the days, H divided by 24; the
\* eligibility is A >= ttl; and so an eligible group is never described by
\* an age below ttl.
C29_OneAgeForDescriptionAndVerdict ==
    AgeComputed
        => \E A \in AgeAt(1) .. AgeAt(3) :
              /\ verdict.age = ToString(TruncDiv(WholeUnits(A, Hour), HoursPerDay))
                                  \o " days ("
                                  \o ToString(WholeUnits(A, Hour)) \o " hours)"
              /\ verdict.ok = (A >= o.ttl)
              /\ verdict.ok => WholeUnits(A, Hour) * Hour >= o.ttl

\* a group found eligible under a ttl of three days and described as
\* "2 days (71 hours)": the clock reached 72 hours between the second and the
\* third reading
C29_EligibleBelowTTLReached ==
    /\ AgeComputed
    /\ o.ttl = 3 * Day
    /\ verdict = Verdict("2 days (71 hours)", TRUE)

\* a description whose days are not its hours divided by 24
C29_DaysNotOfHoursReached ==
    /\ AgeComputed
    /\ verdict.age = "2 days (72 hours)"

\* with the clock standing still during the evaluation the claim holds
C29_HoldsForAStandingClock ==
    (AgeComputed /\ clock[1] = clock[3]) => C29_OneAgeForDescriptionAndVerdict

----------------------------------------------------------------------------
(* A deleting sweep and a dry-run sweep of the same listing                 *)
(*                                                                          *)
(* The variables of the sweep hold the sweep with dryRun false; twin holds  *)
(* a sweep with dryRun true.  Each takes its steps from its own state, by   *)
(* the same lines of runResourceGroupCleanup; what they share is what the   *)
(* listing hands out (the pages, the failure of a fetch) and what the clock *)
(* shows.  A failure of BeginDelete can only happen to the deleting sweep.  *)

\* lines 226-227: the dry-run sweep is called
TwinCalled == [pc |-> "rg", more |-> TRUE, fetched |-> 0, page |-> <<>>,
               rgTrace |-> <<>>, result |-> ""]

\* lines 228-232 for the dry-run sweep: pager.NextPage fails
TwinNextPageFails(t) ==
    IF t.pc = "rg" /\ t.page = <<>> /\ t.more
    THEN [t EXCEPT !.rgTrace = Append(@, RGEvent("NextPage", NoGroup, "", FALSE)),
                   !.result = "error",
                   !.pc = "ret"]
    ELSE t

\* lines 228-233 for the dry-run sweep: pager.NextPage hands out pg
TwinNextPage(t, pg, m) ==
    IF t.pc = "rg" /\ t.page = <<>> /\ t.more
    THEN [t EXCEPT !.page = pg,
                   !.more = m,
                   !.fetched = @ + 1,
                   !.rgTrace = Append(@, RGEvent("NextPage", NoGroup, "", TRUE))]
    ELSE t

\* lines 233-248 for the dry-run sweep: one iteration of the loop, the clock
\* showing since
TwinVisit(t, since) ==
    IF t.pc = "rg" /\ t.page # <<>>
    THEN IF shouldDeleteResourceGroup(Head(t.page), o.ttl, o.regex, since).panic
         THEN [t EXCEPT !.page = RestOfPage(@, FALSE),
                        !.pc = "panic"]
         ELSE [t EXCEPT !.page = RestOfPage(@, FALSE),
                        !.rgTrace = @ \o RGActOn(Head(t.page),
                              shouldDeleteResourceGroup(Head(t.page), o.ttl,
                                                        o.regex, since),
                              TRUE, FALSE)]
    ELSE t

\* lines 228, 251 for the dry-run sweep: pager.More() is false
TwinReturn(t) ==
    IF t.pc = "rg" /\ t.page = <<>> /\ ~t.more
    THEN [t EXCEPT !.result = "nil", !.pc = "ret"]
    ELSE t

\* lines 228-232: the fetch of the next page fails for both sweeps
PairNextPageFails ==
    /\ pc = "rg" /\ page = <<>> /\ more
    /\ rgTrace' = Append(rgTrace, RGEvent("NextPage", NoGroup, "", FALSE))
    /\ result' = "error"
    /\ pc' = "ret"
    /\ twin' = TwinNextPageFails(twin)
    /\ UNCHANGED <<o, now, more, fetched, listed, page, raVars, evalVars,
                   completed>>

\* lines 228-233: the listing hands out the same next page to both sweeps
PairNextPage ==
    /\ pc = "rg" /\ page = <<>> /\ more
    /\ \E pg \in PagesOf(listed, MaxPageLen), m \in BOOLEAN :
          /\ fetched + 1 >= MaxPages => ~m
          /\ page' = pg
          /\ more' = m
          /\ listed' = listed \cup { pg[i].Name : i \in DOMAIN pg }
          /\ twin' = TwinNextPage(twin, pg, m)
    /\ fetched' = fetched + 1
    /\ rgTrace' = Append(rgTrace, RGEvent("NextPage", NoGroup, "", TRUE))
    /\ UNCHANGED <<o, pc, now, result, raVars, evalVars, completed>>

\* lines 233-248: one iteration of the loop of both sweeps, the clock showing
\* the same to both
PairVisit ==
    /\ pc = "rg" /\ page # <<>>
    /\ \E d1, d2 \in 0 .. MaxDrift, deleteErr \in BOOLEAN :
          LET g == Head(page)
              since == <<now, now + d1, now + d1 + d2>>
              v == shouldDeleteResourceGroup(g, o.ttl, o.regex, since)
          IN  /\ since[3] <= Now0 + MaxElapsed
              /\ deleteErr => (v.ok /\ ~o.dryRun)
              /\ now' = since[3]
              /\ page' = RestOfPage(page, deleteErr)
              /\ IF v.panic
                 THEN /\ pc' = "panic"
                      /\ rgTrace' = rgTrace
                 ELSE /\ pc' = pc
                      /\ rgTrace' = rgTrace \o RGActOn(g, v, o.dryRun, deleteErr)
              /\ twin' = TwinVisit(twin, since)
    /\ UNCHANGED <<o, result, more, fetched, listed, raVars, evalVars,
                   completed>>

\* lines 228, 251: both sweeps return
PairReturn ==
    /\ pc = "rg" /\ page = <<>> /\ ~more
    /\ result' = "nil"
    /\ pc' = "ret"
    /\ twin' = TwinReturn(twin)
    /\ UNCHANGED <<o, now, rgVars, raVars, evalVars, completed>>

InitPair ==
    /\ o \in SweepOptions
    /\ ~o.dryRun
    /\ pc = "rg"
    /\ now = Now0
    /\ result = ""
    /\ more = TRUE
    /\ fetched = 0
    /\ listed = {}
    /\ page = <<>>
    /\ rgTrace = <<>>
    /\ assigned = {}
    /\ principalToAssignmentIDs = NoCandidates
    /\ ranged = {}
    /\ pending = <<>>
    /\ raTrace = <<>>
    /\ rg = NoGroup
    /\ clock = <<Now0, Now0, Now0>>
    /\ verdict = Verdict("", FALSE)
    /\ earlier = Verdict("", FALSE)
    /\ completed = NoCompletions
    /\ twin = TwinCalled

NextPair ==
    \/ PairNextPageFails
    \/ PairNextPage
    \/ PairVisit
    \/ PairReturn

SpecPair == InitPair /\ [][NextPair]_vars

\* the page fetches of a trace, in order, each with its outcome
RECURSIVE Fetches(_)
Fetches(tr) ==
    IF tr = <<>> THEN <<>>
    ELSE IF Head(tr).op = "NextPage" THEN <<Head(tr).ok>> \o Fetches(Tail(tr))
    ELSE Fetches(Tail(tr))

\* the resource groups a trace has an entry of kind op for
GroupsOf(tr, op) == { tr[i].rg : i \in { j \in DOMAIN tr : tr[j].op = op } }

\* C30: dry-run is faithful.  Of a deleting sweep and a dry-run sweep of the
\* same listing, with the same ttl and pattern and the same clock, the
\* resource groups the dry-run sweep has logged as eligible are the resource
\* groups the deleting sweep has issued a delete request for; the two have
\* fetched the same pages with the same outcomes, stand at the same entry of
\* the same page, and have returned the same result (or both have not).
C30_DryRunIsFaithful ==
    /\ GroupsOf(twin.rgTrace, "log: Dry-run: skip deletion")
          = GroupsOf(rgTrace, "BeginDelete")
    /\ GroupsOf(twin.rgTrace, "BeginDelete") = {}
    /\ Fetches(twin.rgTrace) = Fetches(rgTrace)
    /\ twin.fetched = fetched /\ twin.page = page /\ twin.more = more
    /\ twin.pc = pc /\ twin.result = result

\* both sweeps returned nil after two pages; the deleting sweep asked for the
\* deletion of a group (and one BeginDelete failed), and the dry-run sweep
\* logged the same groups
C30_Witness ==
    /\ pc = "ret" /\ result = "nil" /\ twin.pc = "ret"
    /\ fetched = 2
    /\ \E i \in RGEvents("BeginDelete") : ~rgTrace[i].ok
    /\ Cardinality(GroupsOf(twin.rgTrace, "log: Dry-run: skip deletion")) = 2

\* both sweeps returned the error of a failed fetch after a page with an
\* eligible group
C30_BothFailedReached ==
    /\ pc = "ret" /\ result = "error" /\ twin.result = "error"
    /\ GroupsOf(twin.rgTrace, "log: Dry-run: skip deletion") # {}

====
